---- MODULE Spec2Model ----
(***************************************************************************)
(* Model of the RiX Pratt parser (src/src/parser.js).                      *)
(*                                                                         *)
(* The parser object is the state: the token list, the cursor `position`,  *)
(* the `current` token, and the list of statements that parse() builds.    *)
(* Every parsing method is an operator that takes the cursor state          *)
(* s = [position, current] and returns [err, val, s]: err is "" on a       *)
(* normal return and the message of the thrown Error otherwise, val is the *)
(* returned value and s the cursor state after the call.                   *)
(***************************************************************************)
EXTENDS Integers, Sequences, FiniteSets, TLC

VARIABLES tokens, position, current, statements, status, error, oracle

vars == <<tokens, position, current, statements, status, error, oracle>>

-----------------------------------------------------------------------------
(* JavaScript values *)

\* null / undefined in a string-valued field
NullStr == "<null>"

\* null in a node-valued field
Null == [type |-> "null"]

DecimalDigits == {"0", "1", "2", "3", "4", "5", "6", "7", "8", "9"}

DigitValue ==
    ("0" :> 0) @@ ("1" :> 1) @@ ("2" :> 2) @@ ("3" :> 3) @@ ("4" :> 4)
    @@ ("5" :> 5) @@ ("6" :> 6) @@ ("7" :> 7) @@ ("8" :> 8) @@ ("9" :> 9)

\* The string is the decimal form of a natural number: digits only and no
\* leading zero.
IsCanonicalNumeric(key) ==
    /\ key # ""
    /\ \A i \in 1..Len(key) : SubSeq(key, i, i) \in DecimalDigits
    /\ Len(key) > 1 => SubSeq(key, 1, 1) # "0"

\* a < b for two strings of digits of the same length.
RECURSIVE DigitsLess(_, _)
DigitsLess(a, b) ==
    IF a = "" THEN FALSE
    ELSE IF SubSeq(a, 1, 1) # SubSeq(b, 1, 1)
    THEN DigitValue[SubSeq(a, 1, 1)] < DigitValue[SubSeq(b, 1, 1)]
    ELSE DigitsLess(SubSeq(a, 2, Len(a)), SubSeq(b, 2, Len(b)))

\* a < b for two canonical numeric strings.
NumericLess(a, b) ==
    Len(a) < Len(b) \/ (Len(a) = Len(b) /\ DigitsLess(a, b))

\* The property key is an array index: the decimal form of a number below
\* 2^32 - 1.
IsArrayIndex(key) ==
    IsCanonicalNumeric(key) /\ NumericLess(key, "4294967295")

\* The entries with a new array-index key put in its place: behind the
\* smaller array indices and before everything else.
RECURSIVE ObjInsertIndex(_, _, _)
ObjInsertIndex(obj, key, value) ==
    IF obj # <<>> /\ IsArrayIndex(Head(obj).key)
       /\ NumericLess(Head(obj).key, key)
    THEN <<Head(obj)>> \o ObjInsertIndex(Tail(obj), key, value)
    ELSE <<[key |-> key, value |-> value]>> \o obj

ObjKeys(obj) == {obj[i].key : i \in 1..Len(obj)}

\* The names every plain object inherits from Object.prototype: obj[name]
\* gives the inherited member, which is truthy and has none of the fields
\* the parser reads.
ObjectPrototypeNames ==
    {"constructor", "toString", "valueOf", "hasOwnProperty", "isPrototypeOf",
     "toLocaleString", "propertyIsEnumerable", "__proto__",
     "__defineGetter__", "__defineSetter__", "__lookupGetter__",
     "__lookupSetter__"}

\* A precedence that is undefined.
UndefinedPrecedence == -1

\* obj[key] = value on a plain JS object, the object being the sequence of
\* its own entries in the order of Object.entries: array-index keys in
\* ascending order first, the other keys in insertion order. Assigning an
\* existing key replaces its value in place; assigning "__proto__" sets
\* the prototype and makes no entry.
ObjSet(obj, key, value) ==
    IF key = "__proto__" THEN obj
    ELSE IF key \in ObjKeys(obj)
    THEN [i \in 1..Len(obj) |->
            IF obj[i].key = key THEN [key |-> key, value |-> value]
            ELSE obj[i]]
    ELSE IF IsArrayIndex(key) THEN ObjInsertIndex(obj, key, value)
    ELSE Append(obj, [key |-> key, value |-> value])

\* The value Object.entries gives for the key.
ObjGet(obj, key) == obj[CHOOSE i \in 1..Len(obj) : obj[i].key = key].value

-----------------------------------------------------------------------------
(* Precedence levels and the symbol table *)

PRECEDENCE ==
    [STATEMENT |-> 0, ASSIGNMENT |-> 10, PIPE |-> 20, ARROW |-> 25,
     LOGICAL_OR |-> 30, LOGICAL_AND |-> 40, CONDITION |-> 45,
     EQUALITY |-> 50, COMPARISON |-> 60, INTERVAL |-> 70, ADDITION |-> 80,
     MULTIPLICATION |-> 90, EXPONENTIATION |-> 100, UNARY |-> 110,
     CALCULUS |-> 115, POSTFIX |-> 120, PROPERTY |-> 130]

SymInfo(p, a, t) == [precedence |-> p, associativity |-> a, type |-> t]

AssignmentOps == {":=", ":=:", ":<:", ":>:", ":<=:", ":>=:", ":=>", "=>", ":->"}
PipeOps       == {"|>", "||>", "|>>", "|>:", "|>?", "|+", "|*", "|:", "|;", "|^", "|?"}
EqualityOps   == {"=", "?=", "!=", "=="}
ComparisonOps == {"<", ">", "<=", ">=", "?<", "?>", "?<=", "?>="}
AdditionOps   == {"+", "-"}
MultiplicationOps == {"*", "/", "//", "%", "/^", "/~", "/%"}
ExponentiationOps == {"^", "**"}

SYMBOL_TABLE ==
    [sym \in AssignmentOps |-> SymInfo(PRECEDENCE.ASSIGNMENT, "right", "infix")]
    @@ [sym \in PipeOps |-> SymInfo(PRECEDENCE.PIPE, "left", "infix")]
    @@ [sym \in EqualityOps |-> SymInfo(PRECEDENCE.EQUALITY, "left", "infix")]
    @@ [sym \in ComparisonOps |-> SymInfo(PRECEDENCE.COMPARISON, "left", "infix")]
    @@ (":" :> SymInfo(PRECEDENCE.INTERVAL, "left", "infix"))
    @@ [sym \in AdditionOps |-> SymInfo(PRECEDENCE.ADDITION, "left", "infix")]
    @@ [sym \in MultiplicationOps |-> SymInfo(PRECEDENCE.MULTIPLICATION, "left", "infix")]
    @@ [sym \in ExponentiationOps |-> SymInfo(PRECEDENCE.EXPONENTIATION, "right", "infix")]
    @@ ("->" :> SymInfo(PRECEDENCE.ARROW, "right", "infix"))
    @@ ("?" :> SymInfo(PRECEDENCE.CONDITION, "left", "infix"))
    @@ ("." :> SymInfo(PRECEDENCE.PROPERTY, "left", "infix"))
    @@ ("'" :> SymInfo(PRECEDENCE.CALCULUS, "left", "calculus"))
    @@ ("(" :> SymInfo(0, NullStr, "grouping"))
    @@ (")" :> SymInfo(0, NullStr, "grouping"))
    @@ ("[" :> SymInfo(PRECEDENCE.POSTFIX, NullStr, "postfix"))
    @@ ("]" :> SymInfo(0, NullStr, "grouping"))
    @@ ("{" :> SymInfo(0, NullStr, "grouping"))
    @@ ("}" :> SymInfo(0, NullStr, "grouping"))
    @@ ("{{" :> SymInfo(0, NullStr, "codeblock"))
    @@ ("}}" :> SymInfo(0, NullStr, "codeblock"))
    @@ ("," :> SymInfo(5, "left", "infix"))
    @@ (";" :> SymInfo(PRECEDENCE.STATEMENT, "left", "statement"))

-----------------------------------------------------------------------------
(* The system-symbol oracle: the constructor argument systemLookup *)

\* A result of the oracle; an omitted precedence is 0 and an omitted
\* associativity or operatorType is NullStr.
OracleInfo(t, p, a, o) ==
    [type |-> t, precedence |-> p, associativity |-> a, operatorType |-> o]

\* The oracle of the repository's tests: systemSymbols[name] or, when that is
\* falsy, {type: "identifier"}; for a name inherited from Object.prototype
\* the answer is the inherited member, whose type is undefined.
testSystemLookup(name) ==
    CASE name \in ObjectPrototypeNames ->
            OracleInfo(NullStr, 0, NullStr, NullStr)
      [] name \in {"SIN", "COS", "TAN", "LOG", "MAX", "MIN"} ->
            OracleInfo("function", 0, NullStr, NullStr)
      [] name \in {"PI", "E"} -> OracleInfo("constant", 0, NullStr, NullStr)
      [] name = "AND" -> OracleInfo("operator", 40, "left", "infix")
      [] name = "OR" -> OracleInfo("operator", 30, "left", "infix")
      [] name = "NOT" -> OracleInfo("operator", 110, NullStr, "prefix")
      [] name = "IN" -> OracleInfo("operator", 60, "left", "infix")
      [] name = "UNION" -> OracleInfo("operator", 50, "left", "infix")
      [] OTHER -> OracleInfo("identifier", 0, NullStr, NullStr)

\* A host oracle that declares two more operators and leaves fields out:
\* XOR with nothing but its type, POW with precedence 100 and right
\* associativity but no operatorType.
hostSystemLookup(name) ==
    CASE name = "XOR" -> OracleInfo("operator", 0, NullStr, NullStr)
      [] name = "POW" -> OracleInfo("operator", 100, "right", NullStr)
      [] OTHER -> testSystemLookup(name)

\* The oracle the constructor puts in place when none is handed over:
\* () => ({ type: 'identifier' }).
defaultSystemLookup(name) == OracleInfo("identifier", 0, NullStr, NullStr)

Oracles == {"testSystemLookup", "hostSystemLookup", "defaultSystemLookup"}

\* this.systemLookup(name)
systemLookup(name) ==
    IF oracle = "hostSystemLookup" THEN hostSystemLookup(name)
    ELSE IF oracle = "testSystemLookup" THEN testSystemLookup(name)
    ELSE defaultSystemLookup(name)

-----------------------------------------------------------------------------
(* Tokens and the cursor *)

\* A token of the tokenizer: {type, value, kind, count, place, pos}.
\* pos stands for the start offset of the token; chars holds the characters
\* of the value of a backtick string, which the header parser indexes.
Token(type, value, kind) ==
    [type |-> type, value |-> value, kind |-> kind,
     count |-> 0, place |-> 0, pos |-> 0, chars |-> <<>>]

EndSentinel ==
    [type |-> "End", value |-> NullStr, kind |-> NullStr,
     count |-> 0, place |-> 0, pos |-> Len(tokens), chars |-> <<>>]

Cursor(p, c) == [position |-> p, current |-> c]

\* An advance() that goes on counting behind the last token.
advance_Unbounded(s) ==
    IF s.position < Len(tokens)
    THEN Cursor(s.position + 1, tokens[s.position + 1])
    ELSE Cursor(s.position + 1, EndSentinel)

advance(s) ==
    IF s.position < Len(tokens)
    THEN Cursor(s.position + 1, tokens[s.position + 1])
    ELSE Cursor(s.position, EndSentinel)

peek(s) ==
    IF s.position < Len(tokens) THEN tokens[s.position + 1]
    ELSE [EndSentinel EXCEPT !.pos = 0]

createNode(type, properties, s) ==
    ("type" :> type) @@ properties @@ ("pos" :> s.current.pos)

\* A normal return of a parsing method and a thrown parse error.
Ok(val, s) == [err |-> "", val |-> val, s |-> s]

Fail(message, s) == [err |-> message, val |-> Null, s |-> s]

\* getSymbolInfo that defaults an oracle operator to the ADDITION level.
getSymbolInfo_DefaultAddition(token) ==
    IF token.type = "Symbol"
    THEN IF token.value \in DOMAIN SYMBOL_TABLE
         THEN SYMBOL_TABLE[token.value]
         ELSE IF token.value \in ObjectPrototypeNames
         THEN SymInfo(UndefinedPrecedence, NullStr, NullStr)
         ELSE SymInfo(0, NullStr, "unknown")
    ELSE IF token.type = "SemicolonSequence"
    THEN SymInfo(0, NullStr, "separator")
    ELSE IF token.type = "Identifier" /\ token.kind = "System"
            /\ systemLookup(token.value).type = "operator"
    THEN SymInfo(IF systemLookup(token.value).precedence # 0
                 THEN systemLookup(token.value).precedence
                 ELSE PRECEDENCE.ADDITION,
                 "left", "infix")
    ELSE SymInfo(0, NullStr, "operand")

getSymbolInfo(token) ==
    IF token.type = "Symbol"
    THEN IF token.value \in DOMAIN SYMBOL_TABLE
         THEN SYMBOL_TABLE[token.value]
         ELSE IF token.value \in ObjectPrototypeNames
         THEN SymInfo(UndefinedPrecedence, NullStr, NullStr)
         ELSE SymInfo(0, NullStr, "unknown")
    ELSE IF token.type = "SemicolonSequence"
    THEN SymInfo(0, NullStr, "separator")
    ELSE IF token.type = "Identifier" /\ token.kind = "System"
            /\ systemLookup(token.value).type = "operator"
    THEN LET systemInfo == systemLookup(token.value) IN
         SymInfo(IF systemInfo.precedence # 0 THEN systemInfo.precedence
                 ELSE PRECEDENCE.MULTIPLICATION,
                 IF systemInfo.associativity \notin {NullStr, ""}
                 THEN systemInfo.associativity ELSE "left",
                 IF systemInfo.operatorType \notin {NullStr, ""}
                 THEN systemInfo.operatorType ELSE "infix")
    ELSE SymInfo(0, NullStr, "operand")

-----------------------------------------------------------------------------
(* Arrow lowering: parameter specifications built from parsed nodes *)

IdentifierNodes == {"UserIdentifier", "SystemIdentifier"}

EquationOps == {":=:", ":>:", ":<:", ":<=:", ":>=:"}

Param(name, defaultValue) == [name |-> name, defaultValue |-> defaultValue]

EmptyParams ==
    [positional |-> <<>>, keyword |-> <<>>, conditionals |-> <<>>,
     metadata |-> <<>>]

\* node.name || node.value
NameOrValue(node) ==
    IF node.type \in IdentifierNodes
    THEN IF node.name # "" THEN node.name ELSE NullStr
    ELSE IF "name" \in DOMAIN node THEN node.name
    ELSE IF "value" \in DOMAIN node THEN node.value
    ELSE NullStr

IsBinary(node, op) == node.type = "BinaryOperation" /\ node.operator = op

parseParameterFromArg(arg, inKeywordSection) ==
    IF IsBinary(arg, ":=")
    THEN IF IsBinary(arg.right, "?")
         THEN [param |-> Param(NameOrValue(arg.left), arg.right.left),
               condition |-> arg.right.right]
         ELSE [param |-> Param(NameOrValue(arg.left), arg.right),
               condition |-> Null]
    ELSE IF IsBinary(arg, "?")
    THEN [param |-> Param(NameOrValue(arg.left), Null),
          condition |-> arg.right]
    ELSE IF arg.type = "UserIdentifier"
            \/ (arg.type = "Identifier" /\ arg.kind = "User")
    THEN [param |-> Param(NameOrValue(arg), Null), condition |-> Null]
    ELSE [param |-> Param(NullStr, Null), condition |-> Null]

\* keywordParamFromArg that leaves a `? condition` on the default value.
keywordParamFromArg_KeepCondition(entry) ==
    [param |-> Param(entry.key, entry.value), condition |-> Null]

\* One keyword argument turned into a keyword parameter.
keywordParamFromArg(entry) ==
    IF IsBinary(entry.value, "?")
    THEN [param |-> Param(entry.key, entry.value.left),
          condition |-> entry.value.right]
    ELSE [param |-> Param(entry.key, entry.value), condition |-> Null]

\* The conditions of a list of conversion results, in order.
conditionsOf(results) ==
    LET conds == [i \in 1..Len(results) |-> results[i].condition]
    IN SelectSeq(conds, LAMBDA c : c # Null)

convertArgsToParams(args) ==
    LET pos == [i \in 1..Len(args.positional) |->
                    parseParameterFromArg(args.positional[i], FALSE)]
        kw  == [i \in 1..Len(args.keyword) |->
                    keywordParamFromArg(args.keyword[i])]
    IN [positional |-> [i \in 1..Len(pos) |-> pos[i].param],
        keyword |-> [i \in 1..Len(kw) |-> kw[i].param],
        conditionals |-> conditionsOf(pos) \o conditionsOf(kw),
        metadata |-> <<>>]

functionDefinitionNode(left, right, s) ==
    LET isCall == left.type = "FunctionCall"
        funcName == IF isCall THEN left.function ELSE left
        parameters == IF isCall THEN convertArgsToParams(left.arguments)
                      ELSE [positional |-> <<>>, keyword |-> <<>>,
                            metadata |-> <<>>]
    IN createNode("FunctionDefinition",
                  [name |-> funcName, parameters |-> parameters,
                   body |-> right, pos |-> left.pos], s)

rawPatternsOf(right) ==
    IF right.type = "Array" THEN right.elements
    ELSE IF right.type = "WithMetadata" /\ right.primary.type = "Array"
    THEN IF Len(right.primary.elements) > 0
            /\ right.primary.elements[1].type = "Array"
         THEN right.primary.elements[1].elements
         ELSE right.primary.elements
    ELSE <<right>>

\* Parameters of a legacy BinaryOperation('->') pattern.
legacyPatternParameters(pattern) ==
    IF pattern.left.type = "Grouping"
    THEN LET paramExpr == pattern.left.expression IN
         IF IsBinary(paramExpr, "?")
         THEN [EmptyParams EXCEPT
                 !.positional = <<Param(NameOrValue(paramExpr.left), Null)>>,
                 !.conditionals = <<paramExpr.right>>]
         ELSE IF paramExpr.type = "UserIdentifier"
         THEN [EmptyParams EXCEPT
                 !.positional = <<Param(NameOrValue(paramExpr), Null)>>]
         ELSE EmptyParams
    ELSE EmptyParams

RECURSIVE patternsOf(_)
patternsOf(rawPatterns) ==
    IF rawPatterns = <<>> THEN <<>>
    ELSE LET pattern == Head(rawPatterns) IN
         (IF pattern.type = "FunctionLambda"
          THEN <<[parameters |-> pattern.parameters, body |-> pattern.body]>>
          ELSE IF IsBinary(pattern, "->")
          THEN <<[parameters |-> legacyPatternParameters(pattern),
                  body |-> pattern.right]>>
          ELSE <<>>)
         \o patternsOf(Tail(rawPatterns))

patternMatchingNode(left, right, s) ==
    LET isCall == left.type = "FunctionCall"
        funcName == IF isCall THEN left.function ELSE left
        parameters == IF isCall THEN convertArgsToParams(left.arguments)
                      ELSE EmptyParams
        globalMetadata ==
            IF right.type = "WithMetadata" /\ right.primary.type = "Array"
            THEN right.metadata ELSE <<>>
    IN createNode("PatternMatchingFunction",
                  [name |-> funcName, parameters |-> parameters,
                   patterns |-> patternsOf(rawPatternsOf(right)),
                   metadata |-> globalMetadata, pos |-> left.pos], s)

\* The positional parameters a Tuple left side of '->' gives.
RECURSIVE tupleParameters(_)
tupleParameters(elements) ==
    IF elements = <<>> THEN <<>>
    ELSE (IF Head(elements).type = "UserIdentifier"
          THEN <<Param(Head(elements).name, Null)>> ELSE <<>>)
         \o tupleParameters(Tail(elements))

arrowNode(operator, left, right, s) ==
    IF left.type = "Grouping" /\ left.expression.type = "ParameterList"
    THEN createNode("FunctionLambda",
                    [parameters |-> left.expression.parameters,
                     body |-> right, pos |-> left.pos], s)
    ELSE IF left.type = "Grouping"
    THEN LET parameters ==
                 IF left.expression.type = "UserIdentifier"
                 THEN [EmptyParams EXCEPT
                         !.positional = <<Param(left.expression.name, Null)>>]
                 ELSE IF IsBinary(left.expression, "?")
                 THEN [EmptyParams EXCEPT
                         !.positional =
                             <<Param(NameOrValue(left.expression.left), Null)>>,
                         !.conditionals = <<left.expression.right>>]
                 ELSE EmptyParams
         IN createNode("FunctionLambda",
                       [parameters |-> parameters, body |-> right,
                        pos |-> left.pos], s)
    ELSE IF left.type = "Tuple"
    THEN createNode("FunctionLambda",
                    [parameters |-> [EmptyParams EXCEPT
                         !.positional = tupleParameters(left.elements)],
                     body |-> right, pos |-> left.pos], s)
    ELSE createNode("BinaryOperation",
                    [operator |-> operator.value, left |-> left,
                     right |-> right, pos |-> left.pos], s)

PipeNodeTypes ==
    ("|>" :> "Pipe") @@ ("||>" :> "ExplicitPipe") @@ ("|>>" :> "Map")
    @@ ("|>?" :> "Filter") @@ ("|>:" :> "Reduce")

\* The node parseInfix returns once the right operand is parsed.
infixNode(operator, left, right, s) ==
    IF operator.value = ":->" THEN functionDefinitionNode(left, right, s)
    ELSE IF operator.value = ":=>" THEN patternMatchingNode(left, right, s)
    ELSE IF operator.value = "->" THEN arrowNode(operator, left, right, s)
    ELSE IF operator.value \in DOMAIN PipeNodeTypes
    THEN createNode(PipeNodeTypes[operator.value],
                    [left |-> left, right |-> right, pos |-> left.pos], s)
    ELSE createNode("BinaryOperation",
                    [operator |-> operator.value, left |-> left,
                     right |-> right, pos |-> left.pos], s)

\* Mutant: associativity ignored.
rightPrecOf_NoAssociativity(symbolInfo) ==
    IF symbolInfo.precedence = UndefinedPrecedence THEN 0
    ELSE symbolInfo.precedence

\* rightPrec of parseInfix as parseExpression takes it: an undefined
\* rightPrec is replaced by the default 0 of the parameter minPrec.
rightPrecOf(symbolInfo) ==
    IF symbolInfo.precedence = UndefinedPrecedence THEN 0
    ELSE symbolInfo.precedence
             + (IF symbolInfo.associativity = "left" THEN 1 ELSE 0)

-----------------------------------------------------------------------------
(* The embedded-language header parser *)

\* JS string operations on a sequence of characters, with 0-based indices.
RECURSIVE indexOfFrom(_, _, _)
indexOfFrom(str, ch, from) ==
    IF from >= Len(str) THEN -1
    ELSE IF str[from + 1] = ch THEN from
    ELSE indexOfFrom(str, ch, from + 1)

indexOf(str, ch) == indexOfFrom(str, ch, 0)

RECURSIVE lastIndexOfFrom(_, _, _)
lastIndexOfFrom(str, ch, from) ==
    IF from < 0 THEN -1
    ELSE IF str[from + 1] = ch THEN from
    ELSE lastIndexOfFrom(str, ch, from - 1)

lastIndexOf(str, ch) == lastIndexOfFrom(str, ch, Len(str) - 1)

slice(str, start, end) == SubSeq(str, start + 1, end)

\* A string of the program is a sequence of its code units, each written as
\* a string of one character. The code units that cannot be written in a
\* string of a module are written by name: "U+2003" is the one code unit
\* U+2003.
NamedCodeUnits ==
    {"U+2000", "U+2001", "U+2002", "U+2003", "U+2004", "U+2005", "U+2006",
     "U+2007", "U+2008", "U+2009", "U+200A", "U+2028", "U+2029", "U+202F",
     "U+205F", "U+3000"}

\* The 25 code units String.prototype.trim strips, white space and line
\* terminators: tab, line feed, vertical tab, form feed, carriage return,
\* space, U+00A0, U+1680, U+2000 to U+200A, U+2028, U+2029, U+202F, U+205F,
\* U+3000 and U+FEFF.
Whitespace ==
    {" ", "\t", "\n", "\r", "\f", "", " ", "﻿", " "}
        \cup NamedCodeUnits

RECURSIVE trimStart(_)
trimStart(str) ==
    IF str # <<>> /\ Head(str) \in Whitespace THEN trimStart(Tail(str))
    ELSE str

RECURSIVE trimEnd(_)
trimEnd(str) ==
    IF str # <<>> /\ str[Len(str)] \in Whitespace
    THEN trimEnd(SubSeq(str, 1, Len(str) - 1))
    ELSE str

trim(str) == trimEnd(trimStart(str))

\* The index of the parenthesis that closes the one at index i, or -1.
RECURSIVE matchingParen(_, _, _)
matchingParen(str, i, parenCount) ==
    IF i >= Len(str) THEN -1
    ELSE IF str[i + 1] = "("
    THEN matchingParen(str, i + 1, parenCount + 1)
    ELSE IF str[i + 1] = ")"
    THEN IF parenCount - 1 = 0 THEN i
         ELSE matchingParen(str, i + 1, parenCount - 1)
    ELSE matchingParen(str, i + 1, parenCount)

RiXString == <<"R", "i", "X", "-", "S", "t", "r", "i", "n", "g">>

\* A string-valued field of an EmbeddedLanguage node that is null.
NullChars == <<NullStr>>

\* The index of the header colon in content.
headerColonIndex(content) ==
    LET parenStart == indexOf(content, "(")
        parenEnd == IF parenStart # -1
                    THEN matchingParen(content, parenStart, 0) ELSE -1
        colonAfterParens ==
            IF parenEnd # -1
            THEN indexOf(slice(content, parenEnd + 1, Len(content)), ":")
            ELSE -1
    IN IF colonAfterParens # -1 THEN parenEnd + 1 + colonAfterParens
       ELSE indexOf(content, ":")

parseEmbeddedLanguage(token, s) ==
    LET content == token.chars IN
    IF (content # <<>> /\ content[1] = ":") \/ indexOf(content, ":") = -1
    THEN Ok(createNode("EmbeddedLanguage",
               [language |-> RiXString, context |-> NullChars,
                body |-> IF content # <<>> /\ content[1] = ":"
                         THEN Tail(content) ELSE content], s), s)
    ELSE
    LET colonIndex == headerColonIndex(content)
        header == trim(slice(content, 0, colonIndex))
        body == slice(content, colonIndex + 1, Len(content))
        headerParenStart == indexOf(header, "(")
        headerParenEnd == lastIndexOf(header, ")")
        parenEnd == IF headerParenStart # -1
                    THEN matchingParen(header, headerParenStart, 0) ELSE -1
        language == IF headerParenStart # -1
                    THEN trim(slice(header, 0, headerParenStart)) ELSE header
        context == IF headerParenStart # -1
                   THEN trim(slice(header, headerParenStart + 1, parenEnd))
                   ELSE NullChars
    IN
    IF headerParenEnd # -1 /\ headerParenStart = -1
    THEN Fail("Unmatched closing parenthesis in embedded language header", s)
    ELSE IF headerParenStart # -1 /\ parenEnd = -1
    THEN Fail("Unmatched opening parenthesis in embedded language header", s)
    ELSE IF headerParenStart # -1 /\ parenEnd # Len(header) - 1
    THEN Fail("Invalid embedded language header format. Expected: LANGUAGE(CONTEXT):BODY", s)
    ELSE IF headerParenStart # -1
            /\ indexOf(slice(header, parenEnd + 1, Len(header)), "(") # -1
    THEN Fail("Multiple parenthetical groups not allowed in embedded language header", s)
    ELSE Ok(createNode("EmbeddedLanguage",
               [language |-> IF language # <<>> THEN language ELSE NullChars,
                context |-> context, body |-> body], s), s)

-----------------------------------------------------------------------------
(* The Pratt engine *)

\* A list-valued field that is null.
NullList == <<Null>>

RECURSIVE parseExpression(_, _), parseExpressionLoop(_, _, _),
          parsePrefix(_), parseInfix(_, _, _),
          parseGrouping(_), parseTupleElements(_), parseTupleElementsLoop(_, _),
          parseArray(_), parseMatrixOrArray(_, _), parseMatrixOrArrayLoop(_, _),
          parseBraceContainer(_), parseBraceContainerLoop(_, _),
          parseCodeBlock(_), parseCodeBlockLoop(_, _),
          parseUnaryOperator(_), parseDerivative(_, _), parseIntegral(_),
          parseCalculusParentheses(_), parseCalculusParenthesesLoop(_, _, _),
          parseFunctionParameters(_), parseFunctionParametersLoop(_, _, _),
          parseFunctionParameter(_, _),
          parseFunctionCallArgs(_), parseFunctionCallArgsLoop(_, _, _)

Terminators == {";", ",", ")", "]", "}", "}}"}

DerivativeBases ==
    {"UserIdentifier", "SystemIdentifier", "FunctionCall", "PropertyAccess",
     "Derivative", "Integral"}

IsComment(token) == token.type = "String" /\ token.kind = "comment"

IsSeparator(token) == token.value = ";" \/ token.type = "SemicolonSequence"

\* `const x = v; ... e` is written The({e : x \in {v}}): the value of e with
\* x bound to the value v, which is computed once.
The(S) == CHOOSE v \in S : TRUE

parseExpression(minPrec, s) ==
    The({ IF p.err # "" THEN p ELSE parseExpressionLoop(p.val, minPrec, p.s) :
          p \in {parsePrefix(s)} })

\* The rest of one iteration of the while loop of parseExpression, r being
\* the result of the call that extends the left operand.
parseExpressionNext(r, minPrec) ==
    IF r.err # "" THEN r ELSE parseExpressionLoop(r.val, minPrec, r.s)

\* symbolInfo.precedence < minPrec, which is false when the precedence is
\* undefined.
precedenceBelow(symbolInfo, minPrec) ==
    /\ symbolInfo.precedence # UndefinedPrecedence
    /\ symbolInfo.precedence < minPrec

\* The while loop of parseExpression, entered with the current left operand.
parseExpressionLoop(left, minPrec, s) ==
    IF s.current.type = "End" THEN Ok(left, s)
    ELSE IF s.current.value \in Terminators
            \/ s.current.type = "SemicolonSequence"
    THEN Ok(left, s)
    ELSE IF IsComment(s.current) THEN Ok(left, s)
    ELSE IF s.current.value = "(" /\ left.type \in IdentifierNodes
    THEN parseExpressionNext(
           parseInfix(left, SymInfo(PRECEDENCE.POSTFIX, NullStr, "postfix"), s),
           minPrec)
    ELSE IF s.current.value = "'" /\ left.type \in DerivativeBases
    THEN parseExpressionNext(parseDerivative(left, s), minPrec)
    ELSE IF precedenceBelow(getSymbolInfo(s.current), minPrec)
    THEN Ok(left, s)
    ELSE IF getSymbolInfo(s.current).type \in {"statement", "separator"}
    THEN Ok(left, s)
    ELSE parseExpressionNext(parseInfix(left, getSymbolInfo(s.current), s),
                             minPrec)

\* The leaf node of a one-token prefix, made after the token is consumed.
leaf(type, properties, s) ==
    Ok(createNode(type, properties, advance(s)), advance(s))

parsePrefix(s) ==
    CASE s.current.type = "Number" ->
            leaf("Number", [value |-> s.current.value], s)
      [] s.current.type = "String" ->
            IF s.current.kind = "backtick"
            THEN parseEmbeddedLanguage(s.current, advance(s))
            ELSE leaf("String",
                      [value |-> s.current.value, kind |-> s.current.kind], s)
      [] s.current.type = "Identifier" ->
            IF s.current.kind = "System"
            THEN leaf("SystemIdentifier",
                      [name |-> s.current.value,
                       systemInfo |-> systemLookup(s.current.value)], s)
            ELSE leaf("UserIdentifier", [name |-> s.current.value], s)
      [] s.current.type = "PlaceHolder" ->
            leaf("PlaceHolder", [place |-> s.current.place], s)
      [] s.current.type = "Symbol" ->
            IF s.current.value = "(" THEN parseGrouping(s)
            ELSE IF s.current.value = "[" THEN parseArray(s)
            ELSE IF s.current.value = "{" THEN parseBraceContainer(s)
            ELSE IF s.current.value = "{{" THEN parseCodeBlock(s)
            ELSE IF s.current.value \in {"+", "-"} THEN parseUnaryOperator(s)
            ELSE IF s.current.value = "'" THEN parseIntegral(s)
            ELSE IF s.current.value = "_" THEN leaf("NULL", <<>>, s)
            ELSE Fail("Unexpected symbol: " \o s.current.value, s)
      [] OTHER -> Fail("Unexpected token: " \o s.current.type, s)

\* The function-call branch of parseInfix, a being the parsed arguments.
functionCallNode(left, a) ==
    IF a.err # "" THEN a
    ELSE IF a.s.current.value # ")"
    THEN Fail("Expected closing parenthesis in function call", a.s)
    ELSE Ok(createNode("FunctionCall",
                       [function |-> left, arguments |-> a.val,
                        pos |-> left.pos], advance(a.s)),
            advance(a.s))

\* The postfix `[` branch of parseInfix, r being the parsed property.
propertyAccessNode(left, r) ==
    IF r.err # "" THEN r
    ELSE IF r.s.current.value # "]" THEN Fail("Expected closing bracket", r.s)
    ELSE Ok(createNode("PropertyAccess",
                       [object |-> left, property |-> r.val,
                        pos |-> left.pos], advance(r.s)),
            advance(r.s))

\* The binary branches of parseInfix, r being the parsed right operand.
binaryNode(operator, left, r) ==
    IF r.err # "" THEN r ELSE Ok(infixNode(operator, left, r.val, r.s), r.s)

parseInfix(left, symbolInfo, s) ==
    IF s.current.value = "(" /\ left.type \in IdentifierNodes
    THEN functionCallNode(left, parseFunctionCallArgs(advance(s)))
    ELSE IF s.current.value = "[" /\ symbolInfo.type = "postfix"
    THEN propertyAccessNode(left, parseExpression(0, advance(s)))
    ELSE binaryNode(s.current, left,
                    parseExpression(rightPrecOf(symbolInfo), advance(s)))

-----------------------------------------------------------------------------
(* Parentheses: grouping, tuple, parameter list *)

\* The look-ahead scan of parseGrouping from JS index tempPos on; the result
\* is <<hasSemicolon, hasComma>>.
RECURSIVE scanGrouping(_, _, _)
scanGrouping(tempPos, parenDepth, hasComma) ==
    IF ~(tempPos < Len(tokens)) THEN <<FALSE, hasComma>>
    ELSE IF tokens[tempPos + 1].value = "("
    THEN scanGrouping(tempPos + 1, parenDepth + 1, hasComma)
    ELSE IF tokens[tempPos + 1].value = ")"
    THEN IF parenDepth = 0 THEN <<FALSE, hasComma>>
         ELSE scanGrouping(tempPos + 1, parenDepth - 1, hasComma)
    ELSE IF parenDepth = 0 /\ tokens[tempPos + 1].value = ";"
    THEN <<TRUE, hasComma>>
    ELSE IF parenDepth = 0 /\ tokens[tempPos + 1].value = ","
    THEN scanGrouping(tempPos + 1, parenDepth, TRUE)
    ELSE scanGrouping(tempPos + 1, parenDepth, hasComma)

\* The closing-parenthesis check at the end of parseGrouping.
closeGrouping(result, s) ==
    IF s.current.value # ")" THEN Fail("Expected closing parenthesis", s)
    ELSE Ok(result, advance(s))

\* The three results of parseGrouping, r being the parsed content.
parameterListGrouping(startToken, r) ==
    IF r.err # "" THEN r
    ELSE closeGrouping(
           createNode("Grouping",
              [expression |->
                  createNode("ParameterList",
                             [parameters |-> r.val, pos |-> startToken.pos],
                             r.s),
               pos |-> startToken.pos], r.s),
           r.s)

tupleGrouping(startToken, r) ==
    IF r.err # "" THEN r
    ELSE closeGrouping(
           createNode("Tuple", [elements |-> r.val, pos |-> startToken.pos],
                      r.s),
           r.s)

expressionGrouping(startToken, r) ==
    IF r.err # "" THEN r
    ELSE closeGrouping(
           createNode("Grouping", [expression |-> r.val,
                                   pos |-> startToken.pos], r.s),
           r.s)

\* parseGrouping once the look-ahead scan has been made; s1 is the cursor
\* after the opening parenthesis.
parseGroupingScanned(startToken, scan, s1) ==
    IF scan[1]
    THEN parameterListGrouping(startToken, parseFunctionParameters(s1))
    ELSE IF scan[2]
    THEN tupleGrouping(startToken, parseTupleElements(s1))
    ELSE expressionGrouping(startToken, parseExpression(0, s1))

parseGrouping(s) ==
    IF advance(s).current.value = ")"
    THEN Ok(createNode("Tuple", [elements |-> <<>>, pos |-> s.current.pos],
                       advance(advance(s))),
            advance(advance(s)))
    ELSE parseGroupingScanned(s.current,
                              scanGrouping(advance(s).position, 0, FALSE),
                              advance(s))

parseTupleElement(s) == parseExpression(0, s)

\* The rest of an iteration of the loop of parseTupleElements, r being the
\* parsed element.
parseTupleElementsNext(elements, r) ==
    IF r.err # "" THEN r
    ELSE parseTupleElementsLoop(Append(elements, r.val), r.s)

parseTupleElements(s) == parseTupleElementsNext(<<>>, parseTupleElement(s))

\* Mutant: a comma after a comma is not looked for.
parseTupleElementsLoop_NoCommaCheck(elements, s) ==
    IF s.current.value # "," THEN Ok(elements, s)
    ELSE IF advance(s).current.value = ")" THEN Ok(elements, advance(s))
    ELSE parseTupleElementsNext(elements, parseTupleElement(advance(s)))

\* The while loop of parseTupleElements.
parseTupleElementsLoop(elements, s) ==
    IF s.current.value # "," THEN Ok(elements, s)
    ELSE IF advance(s).current.value = ","
    THEN Fail("Consecutive commas not allowed in tuples", advance(s))
    ELSE IF advance(s).current.value = ")" THEN Ok(elements, advance(s))
    ELSE parseTupleElementsNext(elements, parseTupleElement(advance(s)))

-----------------------------------------------------------------------------
(* Formal parameters and call arguments *)

\* The parameter with a default value, d being the parsed default.
parameterWithDefault(name, d) ==
    IF d.err # "" THEN d ELSE Ok(Param(name, d.val), d.s)

parseFunctionParameter(isKeywordOnly, s) ==
    IF ~(s.current.type = "Identifier" /\ s.current.kind = "User")
    THEN Fail("Expected parameter name", s)
    ELSE IF advance(s).current.value = ":="
    THEN parameterWithDefault(
           s.current.value,
           parseExpression(PRECEDENCE.ASSIGNMENT + 1, advance(advance(s))))
    ELSE IF isKeywordOnly
    THEN Fail("Keyword-only parameters must have default values", advance(s))
    ELSE Ok(Param(s.current.value, Null), advance(s))

parseFunctionParameters(s) ==
    IF s.current.value = ")" THEN Ok(EmptyParams, s)
    ELSE parseFunctionParametersLoop(EmptyParams, FALSE, s)

\* The end of one iteration of the parameter loop: the separator.
parseFunctionParametersNext(params, inKeywordSection, s) ==
    IF s.current.value = ","
    THEN parseFunctionParametersLoop(params, inKeywordSection, advance(s))
    ELSE IF s.current.value # ")" /\ s.current.value # ";"
    THEN Ok(params, s)
    ELSE parseFunctionParametersLoop(params, inKeywordSection, s)

\* The condition after a parameter, condition being the parsed expression.
parseFunctionParametersCondition(params, inKeywordSection, condition) ==
    IF condition.err # "" THEN condition
    ELSE parseFunctionParametersNext(
           [params EXCEPT !.conditionals = Append(@, condition.val)],
           inKeywordSection, condition.s)

\* The loop body after the parameter is pushed to its section.
parseFunctionParametersPushed(params, inKeywordSection, s) ==
    IF s.current.value = "?"
    THEN parseFunctionParametersCondition(
           params, inKeywordSection,
           parseExpression(PRECEDENCE.CONDITION + 1, advance(s)))
    ELSE parseFunctionParametersNext(params, inKeywordSection, s)

\* The loop body from the parsed parameter on.
parseFunctionParametersPush(params, inKeywordSection, param) ==
    IF param.err # "" THEN param
    ELSE parseFunctionParametersPushed(
           IF inKeywordSection
           THEN [params EXCEPT !.keyword = Append(@, param.val)]
           ELSE [params EXCEPT !.positional = Append(@, param.val)],
           inKeywordSection, param.s)

\* The while loop of parseFunctionParameters.
parseFunctionParametersLoop(params, inKeywordSection, s) ==
    IF ~(s.current.value # ")" /\ s.current.type # "End") THEN Ok(params, s)
    ELSE IF s.current.value = ";"
    THEN parseFunctionParametersLoop(params, TRUE, advance(s))
    ELSE parseFunctionParametersPush(
           params, inKeywordSection,
           parseFunctionParameter(inKeywordSection, s))

parseFunctionCallArgs(s) ==
    IF s.current.value = ")"
    THEN Ok([positional |-> <<>>, keyword |-> <<>>], s)
    ELSE parseFunctionCallArgsLoop([positional |-> <<>>, keyword |-> <<>>],
                                   FALSE, s)

\* The end of one iteration of the argument loop: the separator.
parseFunctionCallArgsNext(args, inKeywordSection, s) ==
    IF s.current.value = ","
    THEN parseFunctionCallArgsLoop(args, inKeywordSection, advance(s))
    ELSE IF s.current.value # ")" /\ s.current.value # ";"
    THEN Ok(args, s)
    ELSE parseFunctionCallArgsLoop(args, inKeywordSection, s)

\* keywordArgument that files the value with the positional arguments.
keywordArgument_AsPositional(args, keyName, value) ==
    IF value.err # "" THEN value
    ELSE parseFunctionCallArgsNext(
           [args EXCEPT !.positional = Append(@, value.val)], TRUE, value.s)

\* A keyword argument `keyName := value`, value being the parsed expression.
keywordArgument(args, keyName, value) ==
    IF value.err # "" THEN value
    ELSE parseFunctionCallArgsNext(
           [args EXCEPT !.keyword = ObjSet(@, keyName, value.val)],
           TRUE, value.s)

\* A positional argument, arg being the parsed expression.
positionalArgument(args, arg) ==
    IF arg.err # "" THEN arg
    ELSE parseFunctionCallArgsNext(
           [args EXCEPT !.positional = Append(@, arg.val)], FALSE, arg.s)

\* The while loop of parseFunctionCallArgs.
parseFunctionCallArgsLoop(args, inKeywordSection, s) ==
    IF ~(s.current.value # ")" /\ s.current.type # "End") THEN Ok(args, s)
    ELSE IF s.current.value = ";"
    THEN parseFunctionCallArgsLoop(args, TRUE, advance(s))
    ELSE IF inKeywordSection
    THEN IF ~(s.current.type = "Identifier" /\ s.current.kind = "User")
         THEN Fail("Expected identifier for keyword argument", s)
         ELSE IF advance(s).current.value = ":="
         THEN keywordArgument(
                args, s.current.value,
                parseExpression(PRECEDENCE.ASSIGNMENT + 1,
                                advance(advance(s))))
         ELSE parseFunctionCallArgsNext(
                [args EXCEPT
                    !.keyword = ObjSet(@, s.current.value,
                        createNode("UserIdentifier",
                                   [name |-> s.current.value,
                                    pos |-> s.current.pos],
                                   advance(s)))],
                TRUE, advance(s))
    ELSE positionalArgument(args, parseExpression(0, s))

-----------------------------------------------------------------------------
(* Square brackets: array, matrix, tensor, array with metadata *)

\* Returns <<count, cursor after the separator>>.
consumeSemicolonSequence(s) ==
    IF s.current.type = "SemicolonSequence"
    THEN <<s.current.count, advance(s)>>
    ELSE IF s.current.value = ";" THEN <<1, advance(s)>>
    ELSE <<0, s>>

StructureEntry(row, separatorLevel) ==
    [row |-> row, separatorLevel |-> separatorLevel]

\* Math.max of the separator levels of the structure.
MaxLevel(matrixStructure) ==
    CHOOSE m \in {matrixStructure[i].separatorLevel :
                     i \in 1..Len(matrixStructure)} :
        \A i \in 1..Len(matrixStructure) :
            m >= matrixStructure[i].separatorLevel

\* Mutant: the dimension of a tensor is its highest separator level.
buildMatrixTensor_NoExtraDimension(matrixStructure, startToken, s) ==
    IF MaxLevel(matrixStructure) = 1
    THEN createNode("Matrix",
                    [rows |-> [i \in 1..Len(matrixStructure) |->
                                   matrixStructure[i].row],
                     pos |-> startToken.pos], s)
    ELSE createNode("Tensor",
                    [structure |-> matrixStructure,
                     maxDimension |-> MaxLevel(matrixStructure),
                     pos |-> startToken.pos], s)

buildMatrixTensor(matrixStructure, startToken, s) ==
    IF MaxLevel(matrixStructure) = 1
    THEN createNode("Matrix",
                    [rows |-> [i \in 1..Len(matrixStructure) |->
                                   matrixStructure[i].row],
                     pos |-> startToken.pos], s)
    ELSE createNode("Tensor",
                    [structure |-> matrixStructure,
                     maxDimension |-> MaxLevel(matrixStructure) + 1,
                     pos |-> startToken.pos], s)

\* The local variables of parseMatrixOrArray.
ArrayLocals ==
    [elements |-> <<>>, hasMetadata |-> FALSE, primaryElement |-> Null,
     metadataMap |-> <<>>, nonMetadataCount |-> 0, hasSemicolons |-> FALSE,
     matrixStructure |-> <<>>, currentRow |-> <<>>]

\* The condition of the do-while loop of parseMatrixOrArray.
parseMatrixOrArrayWhile(st, s) ==
    IF s.current.value # "]" /\ s.current.type # "End"
    THEN parseMatrixOrArrayLoop(st, s)
    ELSE Ok(st, s)

\* A separator after an element: the current row is pushed with the level
\* of the separator.
parseMatrixOrArrayRow(st, s) ==
    parseMatrixOrArrayWhile(
      [st EXCEPT !.hasSemicolons = TRUE,
                 !.matrixStructure =
                     Append(@, StructureEntry(st.currentRow,
                                              consumeSemicolonSequence(s)[1])),
                 !.currentRow = <<>>],
      consumeSemicolonSequence(s)[2])

\* "Check what comes next" after an element of the array.
parseMatrixOrArrayNext(st, s) ==
    IF s.current.value = ","
    THEN parseMatrixOrArrayWhile(st, advance(s))
    ELSE IF IsSeparator(s.current)
    THEN IF st.hasMetadata
         THEN Fail("Cannot mix matrix/tensor syntax with metadata", s)
         ELSE parseMatrixOrArrayRow(st, s)
    ELSE Ok(st, s)

\* The metadata branch of the loop body: element is `key := value`.
parseMatrixOrArrayMetadata(st, element, s) ==
    IF st.hasSemicolons
    THEN Fail("Cannot mix matrix/tensor syntax with metadata - use nested array syntax", s)
    ELSE IF element.left.type \in IdentifierNodes
    THEN parseMatrixOrArrayNext(
           [st EXCEPT !.hasMetadata = TRUE,
                      !.metadataMap = ObjSet(@, element.left.name,
                                             element.right)], s)
    ELSE IF element.left.type = "String"
    THEN parseMatrixOrArrayNext(
           [st EXCEPT !.hasMetadata = TRUE,
                      !.metadataMap = ObjSet(@, element.left.value,
                                             element.right)], s)
    ELSE Fail("Metadata key must be an identifier or string", s)

\* The regular-element branch of the loop body.
parseMatrixOrArrayElement(st, element, s) ==
    IF st.hasMetadata
    THEN Fail("Cannot mix array elements with metadata - use nested array syntax like [[1,2,3], key := value]", s)
    ELSE parseMatrixOrArrayNext(
           [st EXCEPT !.nonMetadataCount = @ + 1,
                      !.primaryElement =
                          IF st.nonMetadataCount + 1 = 1 THEN element ELSE @,
                      !.elements = Append(@, element),
                      !.currentRow = Append(@, element)], s)

\* One iteration of the do-while loop of parseMatrixOrArray.
parseMatrixOrArrayLoop(st, s) ==
    IF IsSeparator(s.current)
    THEN parseMatrixOrArrayWhile(
           [st EXCEPT !.hasSemicolons = TRUE,
                      !.matrixStructure =
                          Append(@, StructureEntry(<<>>,
                                        consumeSemicolonSequence(s)[1]))],
           consumeSemicolonSequence(s)[2])
    ELSE The({ IF e.err # "" THEN e
               ELSE IF IsBinary(e.val, ":=")
               THEN parseMatrixOrArrayMetadata(st, e.val, e.s)
               ELSE parseMatrixOrArrayElement(st, e.val, e.s) :
               e \in {parseExpression(0, s)} })

\* "Handle final row if we have matrix structure".
finalStructure(st) ==
    IF Len(st.currentRow) > 0 \/ st.hasSemicolons
    THEN Append(st.matrixStructure, StructureEntry(st.currentRow, 0))
    ELSE st.matrixStructure

\* The part of parseMatrixOrArray after the loop.
finishMatrixOrArray(st, startToken, s) ==
    IF st.hasMetadata /\ st.nonMetadataCount > 1
    THEN Fail("Cannot mix array elements with metadata - use nested array syntax like [[1,2,3], key := value]", s)
    ELSE IF st.hasMetadata
    THEN Ok(createNode("WithMetadata",
               [primary |-> IF st.primaryElement # Null THEN st.primaryElement
                            ELSE createNode("Array",
                                    [elements |-> <<>>,
                                     pos |-> startToken.pos], s),
                metadata |-> st.metadataMap,
                pos |-> startToken.pos], s), s)
    ELSE IF st.hasSemicolons
    THEN Ok(buildMatrixTensor(finalStructure(st), startToken, s), s)
    ELSE Ok(createNode("Array", [elements |-> st.elements,
                                 pos |-> startToken.pos], s), s)

parseMatrixOrArray(startToken, s) ==
    IF s.current.value # "]"
    THEN The({ IF r.err # "" THEN r
               ELSE finishMatrixOrArray(r.val, startToken, r.s) :
               r \in {parseMatrixOrArrayLoop(ArrayLocals, s)} })
    ELSE finishMatrixOrArray(ArrayLocals, startToken, s)

parseArray(s) ==
    The({ IF result.err # "" THEN result
          ELSE IF result.s.current.value # "]"
          THEN Fail("Expected closing bracket", result.s)
          ELSE Ok(result.val, advance(result.s)) :
          result \in {parseMatrixOrArray(s.current, advance(s))} })

-----------------------------------------------------------------------------
(* Curly braces: set, map, system; double braces: code block *)

BraceLocals ==
    [elements |-> <<>>, hasAssignments |-> FALSE, hasPatternMatches |-> FALSE,
     hasEquations |-> FALSE, hasSemicolons |-> FALSE]

\* The condition of the do-while loop of parseBraceContainer.
parseBraceContainerWhile(st, s) ==
    IF s.current.value # "}" /\ s.current.type # "End"
    THEN parseBraceContainerLoop(st, s)
    ELSE Ok(st, s)

\* "Check for separators" after an element of the container.
parseBraceContainerNext(st, s) ==
    IF s.current.value = ","
    THEN parseBraceContainerWhile(st, advance(s))
    ELSE IF s.current.value = ";"
    THEN parseBraceContainerWhile([st EXCEPT !.hasSemicolons = TRUE],
                                  advance(s))
    ELSE Ok(st, s)

\* One iteration of the do-while loop of parseBraceContainer.
parseBraceContainerLoop(st, s) ==
    The({ IF e.err # "" THEN e
          ELSE IF e.val.type = "PatternMatchingFunction"
          THEN Fail("Pattern matching should use array syntax [ ] with sequential evaluation, not brace syntax { }. Use format: name :=> [ pattern1, pattern2, ... ]", e.s)
          ELSE parseBraceContainerNext(
                 [st EXCEPT
                    !.elements = Append(@, e.val),
                    !.hasAssignments = @ \/ IsBinary(e.val, ":="),
                    !.hasEquations =
                        @ \/ (e.val.type = "BinaryOperation"
                              /\ e.val.operator \in EquationOps)],
                 e.s) :
          e \in {parseExpression(0, s)} })

\* Mutant: a container with key-value pairs is a Set.
containerTypeOf_NoMap(st) ==
    IF st.hasEquations THEN "System" ELSE "Set"

\* "Determine container type based on contents".
containerTypeOf(st) ==
    IF st.hasEquations THEN "System"
    ELSE IF st.hasAssignments THEN "Map"
    ELSE "Set"

\* "Validate container contents" and the returned node; s is the cursor
\* after the closing brace.
validateBraceContainer(st, startToken, s) ==
    IF st.hasEquations /\ ~st.hasSemicolons
    THEN Fail("System containers must contain only equations with equation operators separated by semicolons", s)
    ELSE IF st.hasEquations /\ (st.hasAssignments \/ st.hasPatternMatches)
    THEN Fail("Cannot mix equations with other assignment types", s)
    ELSE IF containerTypeOf(st) = "Map"
            /\ \E i \in 1..Len(st.elements) : ~IsBinary(st.elements[i], ":=")
    THEN Fail("Map containers must contain only key-value pairs with :=", s)
    ELSE IF containerTypeOf(st) = "System"
            /\ \E i \in 1..Len(st.elements) :
                  ~(st.elements[i].type = "BinaryOperation"
                    /\ st.elements[i].operator \in EquationOps)
    THEN Fail("System containers must contain only equations with equation operators", s)
    ELSE Ok(createNode(containerTypeOf(st),
                       [elements |-> st.elements, pos |-> startToken.pos], s),
            s)

\* The part of parseBraceContainer from the closing brace on.
finishBraceContainer(st, startToken, s) ==
    IF s.current.value # "}" THEN Fail("Expected closing brace", s)
    ELSE validateBraceContainer(st, startToken, advance(s))

parseBraceContainer(s) ==
    IF advance(s).current.value # "}"
    THEN The({ IF r.err # "" THEN r
               ELSE finishBraceContainer(r.val, s.current, r.s) :
               r \in {parseBraceContainerLoop(BraceLocals, advance(s))} })
    ELSE finishBraceContainer(BraceLocals, s.current, advance(s))

\* finishCodeBlock that hands a single statement back without the CodeBlock.
finishCodeBlock_UnwrapSingle(stmts, startToken, s) ==
    IF s.current.value # "}}" THEN Fail("Expected closing }}", s)
    ELSE IF Len(stmts) = 1 THEN Ok(stmts[1], advance(s))
    ELSE Ok(createNode("CodeBlock", [statements |-> stmts,
                                     pos |-> startToken.pos], advance(s)),
            advance(s))

\* The part of parseCodeBlock from the closing braces on.
finishCodeBlock(stmts, startToken, s) ==
    IF s.current.value # "}}" THEN Fail("Expected closing }}", s)
    ELSE Ok(createNode("CodeBlock", [statements |-> stmts,
                                     pos |-> startToken.pos], advance(s)),
            advance(s))

\* "Check for separators" after a statement of the code block.
parseCodeBlockNext(stmts, s) ==
    IF s.current.value = ";"
    THEN IF advance(s).current.value = "}}" THEN Ok(stmts, advance(s))
         ELSE IF advance(s).current.value # "}}"
                 /\ advance(s).current.type # "End"
         THEN parseCodeBlockLoop(stmts, advance(s))
         ELSE Ok(stmts, advance(s))
    ELSE IF s.current.value = "}}" THEN Ok(stmts, s)
    ELSE IF s.current.type = "End" THEN Fail("Expected closing }}", s)
    ELSE Ok(stmts, s)

\* One iteration of the do-while loop of parseCodeBlock.
parseCodeBlockLoop(stmts, s) ==
    The({ IF e.err # "" THEN e
          ELSE parseCodeBlockNext(Append(stmts, e.val), e.s) :
          e \in {parseExpression(0, s)} })

parseCodeBlock(s) ==
    IF advance(s).current.value # "}}"
    THEN The({ IF r.err # "" THEN r
               ELSE finishCodeBlock(r.val, s.current, r.s) :
               r \in {parseCodeBlockLoop(<<>>, advance(s))} })
    ELSE finishCodeBlock(<<>>, s.current, advance(s))

parseUnaryOperator(s) ==
    The({ IF operand.err # "" THEN operand
          ELSE Ok(createNode("UnaryOperation",
                     [operator |-> s.current.value, operand |-> operand.val,
                      pos |-> s.current.pos], operand.s),
                  operand.s) :
          operand \in {parseExpression(PRECEDENCE.UNARY, advance(s))} })

-----------------------------------------------------------------------------
(* Calculus: derivatives and integrals *)

\* collectQuotes that takes one quote of the run only.
collectQuotes_Single(n, s) ==
    IF s.current.value = "'" THEN <<n + 1, advance(s)>> ELSE <<n, s>>

\* The run of quotes at the cursor: <<number of quotes, cursor after them>>.
RECURSIVE collectQuotes(_, _)
collectQuotes(n, s) ==
    IF s.current.value = "'" THEN collectQuotes(n + 1, advance(s))
    ELSE <<n, s>>

\* The do-while loop of parseVariableList.
RECURSIVE parseVariableListLoop(_, _)
parseVariableListLoop(variables, s) ==
    IF s.current.type # "Identifier"
    THEN Fail("Expected variable name in variable list", s)
    ELSE IF advance(s).current.value = ","
    THEN parseVariableListLoop(Append(variables, [name |-> s.current.value]),
                               advance(advance(s)))
    ELSE IF advance(s).current.value = "]"
    THEN Ok(Append(variables, [name |-> s.current.value]), advance(s))
    ELSE Fail("Expected comma or closing bracket in variable list", advance(s))

parseVariableList(s) ==
    IF s.current.value # "]" THEN parseVariableListLoop(<<>>, s)
    ELSE Ok(<<>>, s)

\* str.includes(ch) for a character ch.
includes(str, ch) == \E i \in 1..Len(str) : SubSeq(str, i, i) = ch

RECURSIVE containsCalculusOperations(_)
containsCalculusOperations(expr) ==
    IF expr.type \in {"Derivative", "Integral"} THEN TRUE
    ELSE IF expr.type = "UserIdentifier" /\ expr.name # ""
    THEN includes(expr.name, "'")
    ELSE \/ ("left" \in DOMAIN expr /\ containsCalculusOperations(expr.left))
         \/ ("right" \in DOMAIN expr /\ containsCalculusOperations(expr.right))
         \/ ("function" \in DOMAIN expr
             /\ containsCalculusOperations(expr.function))
         \/ ("elements" \in DOMAIN expr
             /\ \E i \in 1..Len(expr.elements) :
                   containsCalculusOperations(expr.elements[i]))

\* The closing parenthesis of parseCalculusParentheses.
finishCalculusParentheses(isEvaluation, content, s) ==
    IF s.current.value # ")" THEN Fail("Expected closing parenthesis", s)
    ELSE Ok([isEvaluation |-> isEvaluation, content |-> content], advance(s))

\* The while loop of parseCalculusParentheses.
parseCalculusParenthesesLoop(isEvaluation, content, s) ==
    IF ~(s.current.value # ")" /\ s.current.type # "End")
    THEN finishCalculusParentheses(isEvaluation, content, s)
    ELSE The({ IF expr.err # "" THEN expr
               ELSE IF expr.s.current.value = ","
               THEN parseCalculusParenthesesLoop(
                      isEvaluation /\ ~containsCalculusOperations(expr.val),
                      Append(content, expr.val), advance(expr.s))
               ELSE finishCalculusParentheses(
                      isEvaluation /\ ~containsCalculusOperations(expr.val),
                      Append(content, expr.val), expr.s) :
               expr \in {parseExpression(0, s)} })

parseCalculusParentheses(s) ==
    parseCalculusParenthesesLoop(TRUE, <<>>, advance(s))

\* The optional `[v1, v2, ...]` after the quotes of a derivative or the
\* name of an integral; val is NullList when there is none.
parseCalculusVariables(s) ==
    IF s.current.value # "[" THEN Ok(NullList, s)
    ELSE The({ IF variables.err # "" THEN variables
               ELSE IF variables.s.current.value # "]"
               THEN Fail("Expected closing bracket after variable list",
                         variables.s)
               ELSE Ok(variables.val, advance(variables.s)) :
               variables \in {parseVariableList(advance(s))} })

\* The optional parenthesised list after a derivative or integral:
\* val is <<evaluation, operations>>.
parseCalculusArguments(s) ==
    IF s.current.value # "(" THEN Ok(<<NullList, NullList>>, s)
    ELSE The({ IF parenResult.err # "" THEN parenResult
               ELSE IF parenResult.val.isEvaluation
               THEN Ok(<<parenResult.val.content, NullList>>, parenResult.s)
               ELSE Ok(<<NullList, parenResult.val.content>>, parenResult.s) :
               parenResult \in {parseCalculusParentheses(s)} })

\* The node of a derivative or an integral: the variable list and the
\* parenthesised list follow the quotes (and the name of an integral).
calculusNode(type, properties, variables) ==
    IF variables.err # "" THEN variables
    ELSE The({ IF arguments.err # "" THEN arguments
               ELSE Ok(createNode(type,
                          properties
                          @@ [variables |-> variables.val,
                              evaluation |-> arguments.val[1],
                              operations |-> arguments.val[2]],
                          arguments.s),
                       arguments.s) :
               arguments \in {parseCalculusArguments(variables.s)} })

parseDerivative(left, s) ==
    calculusNode("Derivative",
                 [function |-> left, order |-> collectQuotes(0, s)[1],
                  pos |-> left.pos],
                 parseCalculusVariables(collectQuotes(0, s)[2]))

\* The function name of an integral, at the cursor s.
integralFunction(s) ==
    IF s.current.kind = "System"
    THEN createNode("SystemIdentifier",
                    [name |-> s.current.value,
                     systemInfo |-> systemLookup(s.current.value)], s)
    ELSE createNode("UserIdentifier", [name |-> s.current.value], s)

parseIntegral(s) ==
    IF collectQuotes(0, s)[2].current.type # "Identifier"
    THEN Fail("Expected function name after integral operator",
              collectQuotes(0, s)[2])
    ELSE calculusNode("Integral",
                      [function |-> integralFunction(collectQuotes(0, s)[2]),
                       order |-> collectQuotes(0, s)[1],
                       metadata |-> [integrationConstant |-> "c",
                                     defaultValue |-> 0],
                       pos |-> s.current.pos],
                      parseCalculusVariables(advance(collectQuotes(0, s)[2])))

-----------------------------------------------------------------------------
(* Statements and the top-level loop *)

commentNode(commentToken, s) ==
    createNode("Comment",
               [value |-> commentToken.value, kind |-> commentToken.kind,
                pos |-> commentToken.pos], s)

parseStatement(s) ==
    IF s.current.type = "End" THEN Ok(Null, s)
    ELSE IF IsComment(s.current)
    THEN Ok(commentNode(s.current, advance(s)), advance(s))
    ELSE The({ IF expr.err # "" THEN expr
               ELSE IF expr.s.current.value = ";"
               THEN Ok(createNode("Statement",
                          [expression |-> expr.val, pos |-> expr.val.pos],
                          advance(expr.s)),
                       advance(expr.s))
               ELSE expr :
               expr \in {parseExpression(0, s)} })

-----------------------------------------------------------------------------
(* Token streams given to the parser *)

Sym(v) == Token("Symbol", v, NullStr)
Num(v) == Token("Number", v, NullStr)
Ident(v) == Token("Identifier", v, "User")
SysIdent(v) == Token("Identifier", v, "System")
Str(v) == Token("String", v, "quote")
\* The string made of the characters.
RECURSIVE JoinChars(_)
JoinChars(chars) ==
    IF chars = <<>> THEN "" ELSE Head(chars) \o JoinChars(Tail(chars))

\* The backtick string with the given code units between the backticks:
\* its value is the text between the backticks (a code unit written by
\* name stands in it under its name).
Backtick(content) ==
    [Token("String", JoinChars(content), "backtick") EXCEPT !.chars = content]
CommentTok(v) == Token("String", v, "comment")
Semis(n) == [Token("SemicolonSequence", ";;", NullStr) EXCEPT !.count = n]
EndTok == Token("End", NullStr, NullStr)

\* The tokenizer gives every token its start offset.
WithPos(toks) == [i \in 1..Len(toks) |-> [toks[i] EXCEPT !.pos = 2 * (i - 1)]]

\* Token streams of the repository's tests: between them they take the
\* top-level loop through a comment, a statement, a bare expression and an
\* error.
BaseInputs ==
    { <<Num("2"), Sym("+"), Num("3"), Sym("*"), Num("4"), Sym(";"), EndTok>>,
      <<Num("5"), CommentTok(" comment"), Num("10"), EndTok>>,
      <<Ident("x"), Sym(":="), Num("1"), Sym(";"),
        Ident("y"), Sym(":="), Num("2"), Sym(";"), EndTok>>,
      <<Sym("("), Num("3"), Sym(","), Sym(","), Num("2"), Sym(")"), Sym(";"),
        EndTok>>,
      <<Sym("["), Num("1"), Sym(","), Num("2"), Sym(";"), EndTok>>,
      <<Ident("x"), Sym("+"), Ident("y")>> }

Inputs == BaseInputs

-----------------------------------------------------------------------------
(* The parser as a state machine: new Parser(tokens).parse() *)

\* The state after `new Parser(tokens, systemLookup)` for a token stream of
\* the set inputs.
InitWithOracle(inputs, oracles) ==
    /\ tokens \in {WithPos(toks) : toks \in inputs}
    /\ oracle \in oracles
    /\ \E s \in {advance(Cursor(0, Null))} :
         /\ position = s.position
         /\ current = s.current
    /\ statements = <<>>
    /\ status = "running"
    /\ error = ""

\* The same with the oracle of the repository's tests.
InitWith(inputs) == InitWithOracle(inputs, {"testSystemLookup"})

Init == InitWith(Inputs)

\* parse(): the loop collects a standalone comment.
ParseComment ==
    /\ status = "running"
    /\ current.type # "End"
    /\ IsComment(current)
    /\ \E s \in {advance(Cursor(position, current))} :
         /\ position' = s.position
         /\ current' = s.current
         /\ statements' = Append(statements, commentNode(current, s))
    /\ UNCHANGED <<tokens, status, error, oracle>>

\* parse(): the loop parses one statement and pushes it.
ParseStatement ==
    /\ status = "running"
    /\ current.type # "End"
    /\ ~IsComment(current)
    /\ \E r \in {parseStatement(Cursor(position, current))} :
         /\ r.err = ""
         /\ position' = r.s.position
         /\ current' = r.s.current
         /\ statements' = IF r.val # Null THEN Append(statements, r.val)
                          ELSE statements
    /\ UNCHANGED <<tokens, status, error, oracle>>

\* parse(): parseStatement throws; the error surfaces to the caller.
ParseError ==
    /\ status = "running"
    /\ current.type # "End"
    /\ ~IsComment(current)
    /\ \E r \in {parseStatement(Cursor(position, current))} :
         /\ r.err # ""
         /\ position' = r.s.position
         /\ current' = r.s.current
         /\ error' = r.err
    /\ status' = "error"
    /\ UNCHANGED <<tokens, statements, oracle>>

\* A parse() that returns without looking at the current token.
ParseReturn_Early ==
    /\ status = "running"
    /\ status' = "done"
    /\ UNCHANGED <<tokens, position, current, statements, error, oracle>>

\* parse(): the loop ends at End and the statements are returned.
ParseReturn ==
    /\ status = "running"
    /\ current.type = "End"
    /\ status' = "done"
    /\ UNCHANGED <<tokens, position, current, statements, error, oracle>>

Next == ParseComment \/ ParseStatement \/ ParseError \/ ParseReturn

Spec == Init /\ [][Next]_vars

-----------------------------------------------------------------------------
(* Reading a result *)

Finished == status # "running"

\* The expression of the first node parse() returned, with a Statement
\* wrapper removed.
TopNode ==
    IF statements[1].type = "Statement" THEN statements[1].expression
    ELSE statements[1]

\* The values of the tokens from index i to index j.
ValuesOf(toks, i, j) == [k \in 1..(j - i + 1) |-> toks[i + k - 1].value]

IsAtomToken(token) ==
    \/ token.type = "Number"
    \/ token.type = "Identifier" /\ token.kind = "User"

\* node is the leaf that parsePrefix makes of an atom token.
IsAtomOf(node, token) ==
    \/ token.type = "Number" /\ node.type = "Number" /\ node.value = token.value
    \/ token.type = "Identifier" /\ node.type = "UserIdentifier"
       /\ node.name = token.value

-----------------------------------------------------------------------------
(* C1: grouping of `a op1 b op2 c` *)

\* The binary infix operators of the static table.
InfixOps ==
    AssignmentOps \cup PipeOps \cup EqualityOps \cup ComparisonOps
    \cup AdditionOps \cup MultiplicationOps \cup ExponentiationOps
    \cup {":", "->", "?", "."}

OperandTriples ==
    { <<Num("1"), Num("2"), Num("3")>>,
      <<Ident("x"), Ident("y"), Ident("z")>>,
      <<Ident("x"), Num("2"), Ident("z")>> }

InputsC1 ==
    { <<t[1], Sym(op1), t[2], Sym(op2), t[3], EndTok>> :
        t \in OperandTriples, op1 \in InfixOps, op2 \in InfixOps }

InitC1 == InitWith(InputsC1 \cup BaseInputs)

SpecC1 == InitC1 /\ [][Next]_vars

IsInputC1 ==
    /\ Len(tokens) = 6
    /\ \A i \in {1, 3, 5} : IsAtomToken(tokens[i])
    /\ \A i \in {2, 4} : tokens[i].type = "Symbol" /\ tokens[i].value \in InfixOps
    /\ tokens[6].type = "End"

\* The operator a binary node was built from, and its operands.
OpOf(node) ==
    CASE node.type = "BinaryOperation" -> node.operator
      [] node.type = "FunctionDefinition" -> ":->"
      [] node.type = "PatternMatchingFunction" -> ":=>"
      [] node.type = "Pipe" -> "|>"
      [] node.type = "ExplicitPipe" -> "||>"
      [] node.type = "Map" /\ "left" \in DOMAIN node -> "|>>"
      [] node.type = "Filter" -> "|>?"
      [] node.type = "Reduce" -> "|>:"
      [] OTHER -> NullStr

LeftOf(node) ==
    IF node.type \in {"FunctionDefinition", "PatternMatchingFunction"}
    THEN node.name ELSE node.left

\* A PatternMatchingFunction keeps its right operand only as patterns.
KeepsRight(node) == node.type # "PatternMatchingFunction"

RightOf(node) ==
    IF node.type = "FunctionDefinition" THEN node.body ELSE node.right

\* node is `l op r` for the atoms l and r.
IsAtomicOperation(node, op, l, r) ==
    /\ OpOf(node) = op
    /\ IsAtomOf(LeftOf(node), l)
    /\ KeepsRight(node) => IsAtomOf(RightOf(node), r)

\* op1 binds its right operand before op2 takes it.
GroupsLeft(op1, op2) ==
    \/ SYMBOL_TABLE[op1].precedence > SYMBOL_TABLE[op2].precedence
    \/ /\ SYMBOL_TABLE[op1].precedence = SYMBOL_TABLE[op2].precedence
       /\ SYMBOL_TABLE[op1].associativity = "left"

\* C1: for atoms a, b, c and static infix operators op1, op2 the parser
\* returns (a op1 b) op2 c when prec(op1) > prec(op2) or the precedences are
\* equal and op1 is left-associative, and a op1 (b op2 c) otherwise.
C1_Grouping ==
    (Finished /\ IsInputC1) =>
        /\ status = "done"
        /\ Len(statements) = 1
        /\ LET a == tokens[1]  op1 == tokens[2].value
               b == tokens[3]  op2 == tokens[4].value
               c == tokens[5]  n == statements[1]
           IN IF GroupsLeft(op1, op2)
              THEN /\ OpOf(n) = op2
                   /\ IsAtomicOperation(LeftOf(n), op1, a, b)
                   /\ KeepsRight(n) => IsAtomOf(RightOf(n), c)
              ELSE /\ OpOf(n) = op1
                   /\ IsAtomOf(LeftOf(n), a)
                   /\ KeepsRight(n) => IsAtomicOperation(RightOf(n), op2, b, c)

\* `2 ^ 3 ^ 4`-like input parsed to a right-nested tree, and
\* `x |> f |> g`-like input parsed to a left-nested one.
C1_Witness ==
    /\ status = "done"
    /\ IsInputC1
    /\ \/ /\ tokens[2].value = "^" /\ tokens[4].value = "^"
          /\ statements[1].right.type = "BinaryOperation"
       \/ /\ tokens[2].value = "|>" /\ tokens[4].value = "|>"
          /\ statements[1].left.type = "Pipe"

-----------------------------------------------------------------------------
(* Bracket structure of a token stream, as a reader sees it *)

Openers == {"(", "[", "{", "{{"}

Closers == {")", "]", "}", "}}"}

IsOpener(token) == token.type = "Symbol" /\ token.value \in Openers

IsCloser(token) == token.type = "Symbol" /\ token.value \in Closers

\* The nesting depth after the token at index i, the depth before it being d.
DepthAfter(toks, i, d) ==
    IF IsOpener(toks[i]) THEN d + 1
    ELSE IF IsCloser(toks[i]) THEN d - 1
    ELSE d

\* The index of the token that closes the bracket opened at index i - 1,
\* searching from i at depth d; 0 when there is none.
RECURSIVE ClosingIndex(_, _, _)
ClosingIndex(toks, i, d) ==
    IF i > Len(toks) THEN 0
    ELSE IF DepthAfter(toks, i, d) = 0 THEN i
    ELSE ClosingIndex(toks, i + 1, DepthAfter(toks, i, d))

\* The indices in i..j of the tokens at depth zero of the range i..j.
RECURSIVE DepthZero(_, _, _, _)
DepthZero(toks, i, j, d) ==
    IF i > j THEN {}
    ELSE (IF d = 0 /\ ~IsOpener(toks[i]) THEN {i} ELSE {})
         \cup DepthZero(toks, i + 1, j, DepthAfter(toks, i, d))

\* The input is one bracket pair opening with the symbol open around some
\* content, followed by End.
IsBracketed(open) ==
    /\ Len(tokens) >= 3
    /\ tokens[1].type = "Symbol" /\ tokens[1].value = open
    /\ tokens[Len(tokens)].type = "End"
    /\ ClosingIndex(tokens, 2, 1) = Len(tokens) - 1

\* The indices of the separators with the given values at depth zero of the
\* content of the bracket pair.
Separators(values) ==
    {i \in DepthZero(tokens, 2, Len(tokens) - 2, 0) : tokens[i].value \in values}

-----------------------------------------------------------------------------
(* The elements of a bracket pair, as a reader sees them *)

\* The tokens toks split at the depth-zero tokens with a value in seps; d is
\* the depth before the first token and element the element being collected.
RECURSIVE SplitAt(_, _, _, _)
SplitAt(toks, seps, d, element) ==
    IF toks = <<>> THEN IF element = <<>> THEN <<>> ELSE <<element>>
    ELSE IF d = 0 /\ Head(toks).value \in seps
    THEN <<element>> \o SplitAt(Tail(toks), seps, d, <<>>)
    ELSE SplitAt(Tail(toks), seps, DepthAfter(toks, 1, d),
                 Append(element, Head(toks)))

\* The element is `left op right` for one-token operands.
IsPairWith(element, ops) ==
    /\ Len(element) = 3
    /\ element[2].type = "Symbol" /\ element[2].value \in ops

\* The number of places of the sequence that satisfy Test.
Count(seq, Test(_)) == Cardinality({i \in 1..Len(seq) : Test(seq[i])})

-----------------------------------------------------------------------------
(* C2: classification of a parenthesised group *)

MaxGroupItems == 3

\* The pieces a group is put together from: an atom, the two separators and
\* the inner bracket pairs with a separator of their own inside.
GroupItems ==
    { <<Ident("x")>>, <<Sym(",")>>, <<Sym(";")>>,
      <<Sym("["), Num("1"), Sym(","), Num("2"), Sym("]")>>,
      <<Sym("["), Num("1"), Sym(";"), Num("2"), Sym("]")>>,
      <<Sym("{"), Num("1"), Sym(","), Num("2"), Sym("}")>>,
      <<Sym("("), Num("1"), Sym(","), Num("2"), Sym(")")>>,
      <<Sym("{{"), Ident("a"), Sym(";"), Ident("b"), Sym("}}")>>,
      <<Ident("y"), Sym(":="), Num("1")>> }

RECURSIVE Flatten(_)
Flatten(seqs) == IF seqs = <<>> THEN <<>> ELSE Head(seqs) \o Flatten(Tail(seqs))

\* The concatenations of 1..n pieces.
Pieces(items, n) == UNION {[1..k -> items] : k \in 1..n}

InputsC2 ==
    { <<Sym("(")>> \o Flatten(c) \o <<Sym(")"), EndTok>> :
        c \in Pieces(GroupItems, MaxGroupItems) }

InitC2 == InitWith(InputsC2 \cup BaseInputs)

SpecC2 == InitC2 /\ [][Next]_vars

\* The group holds one inner `[...]` or `{...}` and nothing else.
IsGroupOfContainer ==
    /\ IsBracketed("(")
    /\ tokens[2].type = "Symbol" /\ tokens[2].value \in {"[", "{"}
    /\ ClosingIndex(tokens, 3, 1) = Len(tokens) - 2

\* C2 (as claimed): a parenthesised group is classified by the `;` and `,`
\* at depth zero of its content, tokens inside any inner bracket pair not
\* counting: a `;` gives Grouping(ParameterList), otherwise a `,` gives a
\* Tuple, otherwise a plain Grouping; a group of one inner container is the
\* Grouping of that container.
C2_DepthZeroClassification ==
    /\ (status = "done" /\ IsBracketed("(")) =>
          /\ Len(statements) = 1
          /\ IF Separators({";"}) # {}
             THEN /\ statements[1].type = "Grouping"
                  /\ statements[1].expression.type = "ParameterList"
             ELSE IF Separators({","}) # {}
             THEN statements[1].type = "Tuple"
             ELSE /\ statements[1].type = "Grouping"
                  /\ statements[1].expression.type # "ParameterList"
    /\ (Finished /\ IsGroupOfContainer) =>
          /\ status = "done"
          /\ statements[1].type = "Grouping"
          /\ statements[1].expression.type
                \in {"Array", "Matrix", "Set"}

-----------------------------------------------------------------------------
(* C3: tuples and consecutive commas *)

MaxTupleItems == 5

Digits == <<"1", "2", "3", "4", "5", "6", "7", "8", "9">>

Letters == <<"a", "b", "c", "d", "e", "f", "g", "h", "i">>

\* The token of the piece kind at place i: a number, an identifier or the
\* separator itself.
Piece(kind, i) ==
    CASE kind = "number" -> Num(Digits[i])
      [] kind = "identifier" -> Ident(Letters[i])
      [] OTHER -> Sym(kind)

\* The tokens of the piece kind at place i of a tuple: an atom, the
\* parenthesised number `(n)` or the comma.
TuplePiece(kind, i) ==
    IF kind = "group" THEN <<Sym("("), Num(Digits[i]), Sym(")")>>
    ELSE <<Piece(kind, i)>>

\* The sequences of 1..n pieces in which no two elements are adjacent.
Layouts(kinds, elementKinds, n) ==
    { p \in UNION {[1..k -> kinds] : k \in 1..n} :
        \A i \in 1..(Len(p) - 1) :
            ~(p[i] \in elementKinds /\ p[i + 1] \in elementKinds) }

TupleElementKinds == {"number", "identifier", "group"}

InputsC3 ==
    { <<Sym("(")>> \o Flatten([i \in 1..Len(p) |-> TuplePiece(p[i], i)])
        \o <<Sym(")"), EndTok>> :
        p \in Layouts(TupleElementKinds \cup {","}, TupleElementKinds,
                      MaxTupleItems) }

InitC3 == InitWith(InputsC3 \cup BaseInputs)

SpecC3 == InitC3 /\ [][Next]_vars

\* The tokens between the outer brackets.
Content == SubSeq(tokens, 2, Len(tokens) - 2)

IsComma(token) == token.type = "Symbol" /\ token.value = ","

\* The comma-separated expressions of the content, an empty one standing
\* before a comma that follows no expression.
TupleElements == SplitAt(Content, {","}, 0, <<>>)

\* The tokens are `(`, an atom and `)`.
IsGroupOfAtom(element) ==
    /\ Len(element) = 3
    /\ element[1].type = "Symbol" /\ element[1].value = "("
    /\ IsAtomToken(element[2])
    /\ element[3].type = "Symbol" /\ element[3].value = ")"

IsAtomElement(element) == Len(element) = 1 /\ IsAtomToken(element[1])

\* A parenthesised list, with a comma of its own, of expressions that are
\* an atom or a parenthesised atom.
IsInputC3 ==
    /\ IsBracketed("(")
    /\ Separators({","}) # {}
    /\ \A i \in 1..Len(TupleElements) :
          \/ TupleElements[i] = <<>>
          \/ IsAtomElement(TupleElements[i])
          \/ IsGroupOfAtom(TupleElements[i])

HasConsecutiveCommas ==
    \E i \in 1..(Len(Content) - 1) : IsComma(Content[i]) /\ IsComma(Content[i + 1])

HasLeadingComma == IsComma(Content[1])

\* The first expression of the tuple is parenthesised.
StartsWithGroup == Content[1].type = "Symbol" /\ Content[1].value = "("

\* node is the tree of the expression written with the tokens element.
IsTupleElement(node, element) ==
    IF IsGroupOfAtom(element)
    THEN node.type = "Grouping" /\ IsAtomOf(node.expression, element[2])
    ELSE IsAtomElement(element) /\ IsAtomOf(node, element[1])

\* The parser returned the tuple of the expressions written, in order.
IsTupleAsWritten ==
    /\ status = "done"
    /\ Len(statements) = 1
    /\ statements[1].type = "Tuple"
    /\ Len(statements[1].elements) = Len(TupleElements)
    /\ \A i \in 1..Len(TupleElements) :
          IsTupleElement(statements[1].elements[i], TupleElements[i])

ConsecutiveCommasError ==
    /\ status = "error"
    /\ error = "Consecutive commas not allowed in tuples"

\* C3 (as claimed): a tuple has as many elements as comma-separated
\* expressions, one trailing comma adding none; two consecutive commas
\* always fail with 'Consecutive commas not allowed in tuples'.
C3_AlwaysConsecutiveError ==
    (Finished /\ IsInputC3) =>
        IF HasConsecutiveCommas THEN ConsecutiveCommasError
        ELSE ~HasLeadingComma => IsTupleAsWritten

\* What the parser does with these inputs: a tuple that starts with a
\* parenthesised expression fails with 'Expected closing parenthesis', a
\* comma before the first element fails with 'Unexpected symbol: ,', and
\* for the others the statement above is true; it holds.
C3_ConsecutiveAfterElement ==
    (Finished /\ IsInputC3) =>
        IF StartsWithGroup
        THEN status = "error" /\ error = "Expected closing parenthesis"
        ELSE IF HasLeadingComma
        THEN status = "error" /\ error = "Unexpected symbol: ,"
        ELSE IF HasConsecutiveCommas THEN ConsecutiveCommasError
        ELSE IsTupleAsWritten

\* `(1, b,, 4)`-like input was rejected for its consecutive commas.
C3_Witness ==
    /\ IsInputC3
    /\ ~HasLeadingComma
    /\ ~StartsWithGroup
    /\ HasConsecutiveCommas
    /\ ConsecutiveCommasError

\* `((1), 2)`-like input was rejected although it is a tuple of two
\* expressions.
C3_WitnessGroupFirst ==
    /\ IsInputC3
    /\ StartsWithGroup
    /\ ~HasConsecutiveCommas
    /\ status = "error"

-----------------------------------------------------------------------------
(* C4: keyword-only parameters have default values *)

MaxParams == 3

\* The tokens of the parameter at place i: a bare name or a name with a
\* default value.
ParamTokens(kind, i) ==
    IF kind = "default" THEN <<Ident(Letters[i]), Sym(":="), Num(Digits[i])>>
    ELSE <<Ident(Letters[i])>>

\* The parameters of the layout p, named from place `from` on, with commas
\* between them.
RECURSIVE ParamList(_, _)
ParamList(p, from) ==
    IF p = <<>> THEN <<>>
    ELSE ParamTokens(Head(p), from)
         \o (IF Len(p) > 1 THEN <<Sym(",")>> ELSE <<>>)
         \o ParamList(Tail(p), from + 1)

ParamLayouts(least) ==
    UNION {[1..k -> {"bare", "default"}] : k \in least..MaxParams}

\* `f(positional; keyword) :-> 1` and `(positional; keyword) -> 1`.
InputsC4 ==
    { head \o <<Sym("(")>> \o ParamList(pos, 1) \o <<Sym(";")>>
        \o ParamList(kw, Len(pos) + 1) \o <<Sym(")")>> \o tail :
        pos \in ParamLayouts(1), kw \in ParamLayouts(1),
        head \in {<<>>}, tail \in {<<Sym("->"), Num("1"), EndTok>>} }
    \cup
    { head \o <<Sym("(")>> \o ParamList(pos, 1) \o <<Sym(";")>>
        \o ParamList(kw, Len(pos) + 1) \o <<Sym(")")>> \o tail :
        pos \in ParamLayouts(0), kw \in ParamLayouts(1),
        head \in {<<Ident("f")>>}, tail \in {<<Sym(":->"), Num("1"), EndTok>>} }

InitC4 == InitWith(InputsC4 \cup BaseInputs)

SpecC4 == InitC4 /\ [][Next]_vars

\* The index of the parenthesis that opens the parameter list.
ParamOpen == IF tokens[1].type = "Identifier" THEN 2 ELSE 1

ParamClose == ClosingIndex(tokens, ParamOpen + 1, 1)

\* The index of the `;` of the parameter list; 0 when there is none.
ParamSemicolon ==
    IF \E i \in (ParamOpen + 1)..(ParamClose - 1) : tokens[i].value = ";"
    THEN CHOOSE i \in (ParamOpen + 1)..(ParamClose - 1) : tokens[i].value = ";"
    ELSE 0

\* A function definition or a lambda whose parameter list has a `;`.
IsInputC4 ==
    /\ Len(tokens) >= 6
    /\ tokens[ParamOpen].type = "Symbol" /\ tokens[ParamOpen].value = "("
    /\ ParamClose = Len(tokens) - 3
    /\ tokens[ParamClose + 1].value = (IF ParamOpen = 2 THEN ":->" ELSE "->")
    /\ ParamSemicolon # 0

\* A name after the `;` that no `:=` follows.
HasBareKeywordParameter ==
    \E i \in (ParamSemicolon + 1)..(ParamClose - 1) :
        /\ tokens[i].type = "Identifier"
        /\ tokens[i - 1].value \in {";", ","}
        /\ tokens[i + 1].value \in {",", ")"}

\* C4 (as claimed): every keyword-only entry of a parameter spec has a
\* non-null defaultValue; a formal parameter after the `;` without
\* `:= default` aborts the parse with 'Keyword-only parameters must have
\* default values'.
C4_KeywordOnlyNeedsDefault ==
    (Finished /\ IsInputC4) =>
        /\ status = "done" =>
              \A i \in 1..Len(statements[1].parameters.keyword) :
                  statements[1].parameters.keyword[i].defaultValue # Null
        /\ HasBareKeywordParameter =>
              /\ status = "error"
              /\ error = "Keyword-only parameters must have default values"

-----------------------------------------------------------------------------
(* Bracket literals put together from elements, commas and separators *)

MaxArrayItems == 5

\* The tokens of the piece kind at place i of a bracket literal.
ArrayPiece(kind, i) ==
    CASE kind = "number" -> <<Num(Digits[i])>>
      [] kind = "metadata" -> <<Ident(Letters[i]), Sym(":="), Num(Digits[i])>>
      [] kind = ";;" -> <<Semis(2)>>
      [] kind = ";;;" -> <<Semis(3)>>
      [] OTHER -> <<Sym(kind)>>

InputsArray ==
    { <<Sym("[")>> \o Flatten([i \in 1..Len(p) |-> ArrayPiece(p[i], i)])
        \o <<Sym("]"), EndTok>> :
        p \in Layouts({"number", "metadata", ",", ";", ";;", ";;;"},
                      {"number", "metadata"}, MaxArrayItems) }

InitArray == InitWith(InputsArray \cup BaseInputs)

SpecArray == InitArray /\ [][Next]_vars

IsSeparatorToken(token) ==
    \/ token.type = "SemicolonSequence"
    \/ token.type = "Symbol" /\ token.value = ";"

IsMetadataToken(token) == token.type = "Symbol" /\ token.value = ":="

\* A bracket literal of numbers, `name := number` elements, commas and
\* separators, in which no two elements are adjacent.
IsInputArray ==
    /\ IsBracketed("[")
    /\ \A i \in 1..Len(Content) :
          \/ IsComma(Content[i]) \/ IsSeparatorToken(Content[i])
          \/ Content[i].type = "Number"
          \/ /\ Content[i].type = "Identifier"
             /\ i < Len(Content) /\ IsMetadataToken(Content[i + 1])
          \/ /\ IsMetadataToken(Content[i])
             /\ 1 < i /\ Content[i - 1].type = "Identifier"
             /\ i < Len(Content) /\ Content[i + 1].type = "Number"
    /\ \A i \in 1..(Len(Content) - 1) :
          Content[i].type = "Number" =>
              Content[i + 1].type \notin {"Number", "Identifier"}

HasMetadata == \E i \in 1..Len(Content) : IsMetadataToken(Content[i])

\* The levels of the separators of the literal, in order.
SeparatorLevels ==
    [i \in 1..Len(SelectSeq(Content, IsSeparatorToken)) |->
        IF SelectSeq(Content, IsSeparatorToken)[i].type = "SemicolonSequence"
        THEN SelectSeq(Content, IsSeparatorToken)[i].count
        ELSE 1]

\* The largest number of a non-empty sequence of numbers.
Largest(levels) ==
    CHOOSE m \in {levels[i] : i \in 1..Len(levels)} :
        \A i \in 1..Len(levels) : m >= levels[i]

-----------------------------------------------------------------------------
(* C5: Matrix or Tensor *)

\* C5: a bracket literal with a separator and no metadata is a Matrix when
\* every separator has level 1 and a Tensor when some run has two or more
\* semicolons; the entries of a Tensor carry the levels of the separators in
\* order, the last entry level 0, and maxDimension is one more than the
\* highest level.
C5_MatrixOrTensor ==
    (status = "done" /\ IsInputArray /\ ~HasMetadata
     /\ SeparatorLevels # <<>>) =>
        /\ statements[1].type \in {"Matrix", "Tensor"}
        /\ statements[1].type = "Matrix" <=>
              \A i \in 1..Len(SeparatorLevels) : SeparatorLevels[i] = 1
        /\ statements[1].type = "Tensor" =>
              /\ [i \in 1..Len(statements[1].structure) |->
                     statements[1].structure[i].separatorLevel]
                    = SeparatorLevels \o <<0>>
              /\ statements[1].maxDimension = 1 + Largest(SeparatorLevels)

\* `[1 ; 2 ;; 3]`-like input became a Tensor whose entries carry the levels
\* 1, 2 and 0.
C5_Witness ==
    /\ status = "done"
    /\ IsInputArray
    /\ ~HasMetadata
    /\ SeparatorLevels = <<1, 2>>
    /\ statements[1].type = "Tensor"
    /\ Len(statements[1].structure) = 3
    /\ statements[1].structure[3].row # <<>>

-----------------------------------------------------------------------------
(* C6: metadata and separators never coexist *)

\* C6 (as claimed): a bracket literal that has both a `key := value`
\* element and a separator, in any order, ends in an error and yields no
\* node.
C6_MetadataWithSeparatorFails ==
    (Finished /\ IsInputArray /\ HasMetadata /\ SeparatorLevels # <<>>) =>
        status = "error"

-----------------------------------------------------------------------------
(* C7: the rows of a Matrix *)

\* The numbers written in the tokens toks, split into rows at the
\* separators; row is the row being collected.
RECURSIVE RowsWritten(_, _)
RowsWritten(toks, row) ==
    IF toks = <<>> THEN <<row>>
    ELSE IF IsSeparatorToken(Head(toks))
    THEN <<row>> \o RowsWritten(Tail(toks), <<>>)
    ELSE IF Head(toks).type = "Number"
    THEN RowsWritten(Tail(toks), Append(row, Head(toks).value))
    ELSE RowsWritten(Tail(toks), row)

\* The values of the numbers of a row of nodes.
RowValues(row) == [i \in 1..Len(row) |-> row[i].value]

\* C7 (as claimed): a bracket literal whose separators all have level 1 is
\* a Matrix with one row more than separators, row i holding the elements
\* written between separator i - 1 and separator i, empty rows kept, also
\* when an element is followed by a comma just before a separator.
C7_RowsAsWritten ==
    (status = "done" /\ IsInputArray /\ ~HasMetadata
     /\ SeparatorLevels # <<>>
     /\ \A i \in 1..Len(SeparatorLevels) : SeparatorLevels[i] = 1) =>
        /\ statements[1].type = "Matrix"
        /\ Len(statements[1].rows) = Len(SeparatorLevels) + 1
        /\ [i \in 1..Len(statements[1].rows) |->
               RowValues(statements[1].rows[i])]
              = RowsWritten(Content, <<>>)

-----------------------------------------------------------------------------
(* C8: array with metadata *)

MaxMetaElements == 3

Capitals == <<"A", "B", "C", "D", "E", "F", "G", "H", "I">>

\* The tokens of the element kind at place i of a literal with metadata.
MetaElement(kind, i) ==
    CASE kind = "number" -> <<Num(Digits[i])>>
      [] kind = "nested" -> <<Sym("["), Num("1"), Sym(","), Num("2"), Sym("]")>>
      [] kind = "name" -> <<Ident(Letters[i]), Sym(":="), Num(Digits[i])>>
      [] kind = "system" -> <<SysIdent(Capitals[i]), Sym(":="), Num(Digits[i])>>
      [] kind = "string" -> <<Str(Letters[i]), Sym(":="), Num(Digits[i])>>
      [] OTHER -> <<Num(Digits[i]), Sym(":="), Num(Digits[i])>>

\* The elements with a comma between every two of them.
RECURSIVE Join(_, _)
Join(elements, sep) ==
    IF elements = <<>> THEN <<>>
    ELSE IF Len(elements) = 1 THEN Head(elements)
    ELSE Head(elements) \o <<sep>> \o Join(Tail(elements), sep)

InputsC8 ==
    { <<Sym("[")>> \o Join([i \in 1..Len(p) |-> MetaElement(p[i], i)], Sym(","))
        \o <<Sym("]"), EndTok>> :
        p \in UNION {[1..k -> {"number", "nested", "name", "system", "string",
                               "numeric"}] : k \in 1..MaxMetaElements} }

InitC8 == InitWith(InputsC8 \cup BaseInputs)

SpecC8 == InitC8 /\ [][Next]_vars

\* The elements of the literal: the content split at its commas.
Elements == SplitAt(Content, {","}, 0, <<>>)

IsMetadataElement(element) == IsPairWith(element, {":="})

IsPlainElement(element) ==
    \/ Len(element) = 1 /\ element[1].type = "Number"
    \/ /\ Len(element) = 5
       /\ element[1].type = "Symbol" /\ element[1].value = "["

HasValidKey(element) == element[1].type \in {"Identifier", "String"}

\* A bracket literal without semicolons, of numbers, nested arrays and
\* `key := number` elements, with at least one of the latter.
IsInputC8 ==
    /\ IsBracketed("[")
    /\ \A i \in 1..Len(Content) : ~IsSeparatorToken(Content[i])
    /\ \A i \in 1..Len(Elements) :
          IsMetadataElement(Elements[i]) \/ IsPlainElement(Elements[i])
    /\ \E i \in 1..Len(Elements) : IsMetadataElement(Elements[i])

\* node is the node of the plain element.
IsNodeOf(node, element) ==
    IF Len(element) = 1 THEN IsAtomOf(node, element[1])
    ELSE node.type = "Array" /\ Len(node.elements) = 2

\* The parser returned WithMetadata with the plain element, or an empty
\* Array, as primary and every key mapped to its value.
IsWithMetadata ==
    /\ status = "done"
    /\ Len(statements) = 1
    /\ statements[1].type = "WithMetadata"
    /\ IF Count(Elements, IsPlainElement) = 0
       THEN /\ statements[1].primary.type = "Array"
            /\ statements[1].primary.elements = <<>>
       ELSE \A i \in 1..Len(Elements) :
               IsPlainElement(Elements[i]) =>
                   IsNodeOf(statements[1].primary, Elements[i])
    /\ Len(statements[1].metadata) = Count(Elements, IsMetadataElement)
    /\ \A i \in 1..Len(Elements) :
          IsMetadataElement(Elements[i]) =>
              \E j \in 1..Len(statements[1].metadata) :
                  /\ statements[1].metadata[j].key = Elements[i][1].value
                  /\ IsAtomOf(statements[1].metadata[j].value, Elements[i][3])

\* C8 (as claimed): a bracket literal without semicolons and with a
\* `key := value` element succeeds exactly when it has at most one other
\* element, giving WithMetadata; more than one other element fails with
\* 'Cannot mix array elements with metadata', and a key that is no
\* identifier or string with 'Metadata key must be an identifier or string'.
C8_AtMostOnePlainElement ==
    (Finished /\ IsInputC8) =>
        IF \A i \in 1..Len(Elements) :
              IsMetadataElement(Elements[i]) => HasValidKey(Elements[i])
        THEN IF Count(Elements, IsPlainElement) <= 1 THEN IsWithMetadata
             ELSE /\ status = "error"
                  /\ error = "Cannot mix array elements with metadata - use nested array syntax like [[1,2,3], key := value]"
        ELSE Count(Elements, IsPlainElement) <= 1 =>
                /\ status = "error"
                /\ error = "Metadata key must be an identifier or string"

-----------------------------------------------------------------------------
(* Brace containers put together from elements, commas and semicolons *)

MaxBraceItems == 5

\* The tokens of the piece kind at place i of a brace container.
BracePiece(kind, i) ==
    CASE kind = "number" -> <<Num(Digits[i])>>
      [] kind = "pair" -> <<Ident(Letters[i]), Sym(":="), Num(Digits[i])>>
      [] kind = "equation" ->
            <<Ident(Letters[i]),
              Sym(IF i % 2 = 1 THEN ":=:" ELSE ":<=:"), Num(Digits[i])>>
      [] kind = "pattern" -> <<Ident(Letters[i]), Sym(":=>"), Num(Digits[i])>>
      [] OTHER -> <<Sym(kind)>>

BraceElementKinds == {"number", "pair", "equation", "pattern"}

InputsBrace ==
    { <<Sym("{"), Sym("}"), EndTok>> }
    \cup
    { <<Sym("{")>> \o Flatten([i \in 1..Len(p) |-> BracePiece(p[i], i)])
        \o <<Sym("}"), EndTok>> :
        p \in Layouts(BraceElementKinds \cup {",", ";"}, BraceElementKinds,
                      MaxBraceItems) }

InitBrace == InitWith(InputsBrace \cup BaseInputs)

SpecBrace == InitBrace /\ [][Next]_vars

IsBraceSeparator(token) ==
    token.type = "Symbol" /\ token.value \in {",", ";"}

\* The elements of the container: the content split at its separators.
BraceElements == SplitAt(Content, {",", ";"}, 0, <<>>)

IsNumberElement(element) == Len(element) = 1 /\ element[1].type = "Number"

IsKeyValuePair(element) == IsPairWith(element, {":="})

IsEquation(element) == IsPairWith(element, EquationOps)

IsPatternElement(element) == IsPairWith(element, {":=>"})

\* A brace container of numbers, `key := value` pairs, equations and
\* pattern-matching definitions, each followed by one separator or by the
\* closing brace.
IsInputBrace ==
    /\ IsBracketed("{")
    /\ Content # <<>> => ~IsBraceSeparator(Content[1])
    /\ \A i \in 1..(Len(Content) - 1) :
          ~(IsBraceSeparator(Content[i]) /\ IsBraceSeparator(Content[i + 1]))
    /\ \A i \in 1..Len(BraceElements) :
          \/ IsNumberElement(BraceElements[i])
          \/ IsKeyValuePair(BraceElements[i])
          \/ IsEquation(BraceElements[i])
          \/ IsPatternElement(BraceElements[i])

\* The parser returned a container of the given type with every element.
IsContainer(type) ==
    /\ status = "done"
    /\ Len(statements) = 1
    /\ statements[1].type = type
    /\ Len(statements[1].elements) = Len(BraceElements)

-----------------------------------------------------------------------------
(* C9: Set or Map *)

\* C9: in a brace container a pattern-matching definition aborts the parse
\* with the 'Pattern matching should use array syntax' error; otherwise,
\* with no equation present, the container is a Map when some element is a
\* `:=` pair, and then every element must be one or the parse fails with
\* 'Map containers must contain only key-value pairs', and a Set when none
\* is, the empty container included.
C9_SetOrMap ==
    (Finished /\ IsInputBrace) =>
        IF Count(BraceElements, IsPatternElement) > 0
        THEN /\ status = "error"
             /\ error = "Pattern matching should use array syntax [ ] with sequential evaluation, not brace syntax { }. Use format: name :=> [ pattern1, pattern2, ... ]"
        ELSE Count(BraceElements, IsEquation) = 0 =>
             IF Count(BraceElements, IsKeyValuePair) = 0 THEN IsContainer("Set")
             ELSE IF Count(BraceElements, IsKeyValuePair) = Len(BraceElements)
             THEN IsContainer("Map")
             ELSE /\ status = "error"
                  /\ error = "Map containers must contain only key-value pairs with :="

\* `{a := 1, b := 2}`-like input became a Map of two pairs.
C9_Witness ==
    /\ IsInputBrace
    /\ Count(BraceElements, IsKeyValuePair) = 2
    /\ IsContainer("Map")
    /\ statements[1].elements[2].operator = ":="

-----------------------------------------------------------------------------
(* C10: System *)

SystemErrors ==
    { "System containers must contain only equations with equation operators separated by semicolons",
      "System containers must contain only equations with equation operators",
      "Cannot mix equations with other assignment types" }

HasCommaSeparator == \E i \in 1..Len(Content) : IsComma(Content[i])

\* C10 (as claimed): a System is emitted only when every element is an
\* equation and the elements are separated by `;`; a container with an
\* equation and a comma separator, a `:=` pair or another non-equation
\* element fails with a 'System containers must contain only equations' or
\* 'Cannot mix equations with other assignment types' error.
C10_SystemOnlyEquationsAndSemicolons ==
    (Finished /\ IsInputBrace /\ Count(BraceElements, IsPatternElement) = 0
     /\ Count(BraceElements, IsEquation) > 0) =>
        /\ (status = "done" /\ statements[1].type = "System") =>
              /\ Count(BraceElements, IsEquation) = Len(BraceElements)
              /\ ~HasCommaSeparator
        /\ (HasCommaSeparator
            \/ Count(BraceElements, IsEquation) < Len(BraceElements)) =>
              /\ status = "error"
              /\ error \in SystemErrors

-----------------------------------------------------------------------------
(* C11: code blocks *)

MaxBlockStatements == 3

BlockKinds == {"number", "string", "assign", "block", "empty", "deep"}

\* The tokens of the statement of the given kind at place i of a code block:
\* `1`, the string "}}", `a := 1`, `{{ 1 }}`, `{{ }}` and `{{ {{ 1; }} }}`.
BlockPiece(kind, i) ==
    CASE kind = "number" -> <<Num(Digits[i])>>
      [] kind = "string" -> <<Str("}}")>>
      [] kind = "assign" -> <<Ident(Letters[i]), Sym(":="), Num(Digits[i])>>
      [] kind = "block" -> <<Sym("{{"), Num(Digits[i]), Sym("}}")>>
      [] kind = "empty" -> <<Sym("{{"), Sym("}}")>>
      [] OTHER -> <<Sym("{{"), Sym("{{"), Num(Digits[i]), Sym(";"), Sym("}}"),
                    Sym("}}")>>

\* What stands where the closing `}}` belongs: the `}}`, nothing (the input
\* ends) or the `)` of an enclosing group.
BlockEndings == {"}}", "", ")"}

\* A code block: its statements, whether a `;` follows the last one and
\* what stands in the place of the closing `}}`.
BlockLayouts ==
    { <<p, trailing, ending>> :
        p \in UNION {[1..n -> BlockKinds] : n \in 0..MaxBlockStatements},
        trailing \in BOOLEAN, ending \in BlockEndings }

BlockInput(layout) ==
    <<Sym("{{")>>
    \o Join([i \in 1..Len(layout[1]) |-> BlockPiece(layout[1][i], i)], Sym(";"))
    \o (IF layout[2] THEN <<Sym(";")>> ELSE <<>>)
    \o (IF layout[3] # "" THEN <<Sym(layout[3])>> ELSE <<>>)
    \o <<EndTok>>

InputsC11 ==
    { BlockInput(layout) : layout \in {l \in BlockLayouts : l[1] = <<>> => ~l[2]} }

InitC11 == InitWith(InputsC11 \cup BaseInputs)

SpecC11 == InitC11 /\ [][Next]_vars

\* The input opens a code block that is closed right before End.
IsClosedBlock ==
    /\ IsBracketed("{{")
    /\ tokens[Len(tokens) - 1].value = "}}"

\* The input opens a code block, and a `)` stands where its `}}` belongs.
IsParenEndedBlock ==
    /\ IsBracketed("{{")
    /\ tokens[Len(tokens) - 1].value = ")"

\* The input opens a code block and ends before its `}}`.
IsOpenBlock ==
    /\ Len(tokens) >= 2
    /\ tokens[1].type = "Symbol" /\ tokens[1].value = "{{"
    /\ tokens[Len(tokens)].type = "End"
    /\ ClosingIndex(tokens, 2, 1) = 0

\* The tokens of the statements and the `;` between and after them.
BlockContent ==
    SubSeq(tokens, 2, Len(tokens) - (IF IsOpenBlock THEN 1 ELSE 2))

\* The statements of the code block: its content split at the `;` of its
\* own level.
BlockStatements == SplitAt(BlockContent, {";"}, 0, <<>>)

\* A `;` follows the last statement.
HasTrailingSemicolon ==
    /\ BlockContent # <<>>
    /\ BlockContent[Len(BlockContent)].type = "Symbol"
    /\ BlockContent[Len(BlockContent)].value = ";"

\* The kind of the statement written with the tokens element.
BlockKindOf(element) ==
    CASE ValuesOf(element, 1, Len(element)) = <<"{{", "}}">> -> "empty"
      [] Len(element) = 1 /\ element[1].type = "Number" -> "number"
      [] Len(element) = 1 /\ element[1].type = "String" -> "string"
      [] Len(element) = 3 /\ element[2].value = ":=" -> "assign"
      [] Len(element) = 3 /\ element[1].value = "{{" -> "block"
      [] Len(element) = 6 /\ element[2].value = "{{" -> "deep"
      [] OTHER -> "other"

\* A code block of the statements above, closed or not.
IsInputC11 ==
    /\ IsClosedBlock \/ IsOpenBlock \/ IsParenEndedBlock
    /\ \A i \in 1..Len(BlockStatements) :
          BlockKindOf(BlockStatements[i]) \in BlockKinds

\* A statement of the block is a string.
HasStringStatement ==
    \E i \in 1..Len(BlockStatements) :
        BlockKindOf(BlockStatements[i]) = "string"

IsNumberNode(node, value) == node.type = "Number" /\ node.value = value

IsCodeBlockOf(node, n) ==
    node.type = "CodeBlock" /\ Len(node.statements) = n

\* node is the tree of the statement written with the tokens element.
IsBlockStatement(node, element) ==
    CASE BlockKindOf(element) = "number" ->
            IsNumberNode(node, element[1].value)
      [] BlockKindOf(element) = "string" ->
            node.type = "String" /\ node.value = element[1].value
      [] BlockKindOf(element) = "assign" ->
            /\ IsBinary(node, ":=")
            /\ IsAtomOf(node.left, element[1])
            /\ IsAtomOf(node.right, element[3])
      [] BlockKindOf(element) = "block" ->
            /\ IsCodeBlockOf(node, 1)
            /\ IsNumberNode(node.statements[1], element[2].value)
      [] BlockKindOf(element) = "empty" -> IsCodeBlockOf(node, 0)
      [] OTHER ->
            /\ IsCodeBlockOf(node, 1)
            /\ IsCodeBlockOf(node.statements[1], 1)
            /\ IsNumberNode(node.statements[1].statements[1], element[3].value)

\* The parser returned one CodeBlock whose statements are those written.
IsCodeBlockAsWritten ==
    /\ status = "done"
    /\ Len(statements) = 1
    /\ IsCodeBlockOf(statements[1], Len(BlockStatements))
    /\ \A i \in 1..Len(BlockStatements) :
          IsBlockStatement(statements[1].statements[i], BlockStatements[i])

ExpectedClosing == status = "error" /\ error = "Expected closing }}"

\* C11 (as claimed): `{{ e1; ...; en }}` with n >= 0 and an optional trailing
\* `;` yields a CodeBlock whose statements are e1..en in order, nested code
\* blocks included, and a missing `}}` fails with 'Expected closing }}'.
C11_CodeBlockOrExpectedClosing ==
    (Finished /\ IsInputC11) =>
        IF IsClosedBlock THEN IsCodeBlockAsWritten ELSE ExpectedClosing

\* What the parser does with the blocks without a string statement: a
\* closed block is the CodeBlock of its statements; a block the input ends
\* in fails with 'Expected closing }}' after a statement and with
\* 'Unexpected token: End' when it is empty; a block ended by `)` fails
\* with 'Expected closing }}' right after a statement and with 'Unexpected
\* symbol: )' when it is empty or the `)` follows a `;`. It holds.
C11_CodeBlock ==
    (Finished /\ IsInputC11 /\ ~HasStringStatement) =>
        IF IsClosedBlock THEN IsCodeBlockAsWritten
        ELSE IF IsParenEndedBlock
        THEN IF BlockStatements # <<>> /\ ~HasTrailingSemicolon
             THEN ExpectedClosing
             ELSE status = "error" /\ error = "Unexpected symbol: )"
        ELSE IF BlockStatements # <<>> THEN ExpectedClosing
        ELSE status = "error" /\ error = "Unexpected token: End"

\* `{{ 1; {{ {{ 2; }} }}; }}` became a CodeBlock of its two statements.
C11_Witness ==
    /\ tokens = WithPos(BlockInput(<< <<"number", "deep">>, TRUE, "}}" >>))
    /\ IsInputC11
    /\ IsCodeBlockAsWritten

\* A closed block with a string statement did not become the CodeBlock of
\* its statements.
C11_WitnessString ==
    /\ Finished
    /\ IsInputC11
    /\ IsClosedBlock
    /\ HasStringStatement
    /\ ~IsCodeBlockAsWritten

-----------------------------------------------------------------------------
(* C12: the top-level loop *)

MaxTopItems == 3

TopKinds == {"number", "assign", "block", "string", "semicolon string"}

\* The tokens of the top-level item of the given kind at place i: `1`,
\* `a := 1`, `{{ 1; }}`, `"a"`, the string literal `";"` and a comment.
TopPiece(kind, i) ==
    CASE kind = "number" -> <<Num(Digits[i])>>
      [] kind = "assign" -> <<Ident(Letters[i]), Sym(":="), Num(Digits[i])>>
      [] kind = "block" -> <<Sym("{{"), Num(Digits[i]), Sym(";"), Sym("}}")>>
      [] kind = "string" -> <<Str(Letters[i])>>
      [] kind = "semicolon string" -> <<Str(";")>>
      [] OTHER -> <<CommentTok(Letters[i])>>

\* A top-level item: its kind and whether a `;` token follows it.
TopItems == (TopKinds \X BOOLEAN) \cup {<<"comment", FALSE>>}

\* An item that no `;` token follows is the last one, or a comment or the
\* string literal `";"` comes next; a comment has a comment or `;` before it.
IsSeparated(layout) ==
    \A i \in 1..(Len(layout) - 1) :
        \/ layout[i][2]
        \/ layout[i][1] = "comment"
        \/ layout[i + 1][1] \in {"comment", "semicolon string"}

TopLayouts ==
    {layout \in UNION {[1..n -> TopItems] : n \in 1..MaxTopItems} :
        IsSeparated(layout)}

TopInput(layout) ==
    Flatten([i \in 1..Len(layout) |->
                TopPiece(layout[i][1], i)
                \o (IF layout[i][2] THEN <<Sym(";")>> ELSE <<>>)])
    \o <<EndTok>>

InputsC12 == {TopInput(layout) : layout \in TopLayouts}

InitC12 == InitWith(InputsC12 \cup BaseInputs)

SpecC12 == InitC12 /\ [][Next]_vars

IsInputC12(layout) == tokens = WithPos(TopInput(layout))

\* node is the tree of the top-level item of the given kind at place i.
IsTopExpression(node, kind, i) ==
    CASE kind = "number" -> IsNumberNode(node, Digits[i])
      [] kind = "assign" ->
            /\ IsBinary(node, ":=")
            /\ node.left.type = "UserIdentifier" /\ node.left.name = Letters[i]
            /\ IsNumberNode(node.right, Digits[i])
      [] kind = "block" ->
            /\ IsCodeBlockOf(node, 1)
            /\ IsNumberNode(node.statements[1], Digits[i])
      [] kind = "string" -> node.type = "String" /\ node.value = Letters[i]
      [] kind = "semicolon string" -> node.type = "String" /\ node.value = ";"
      [] OTHER -> node.type = "Comment" /\ node.value = Letters[i]

\* node is the item as the loop emits it: wrapped as a Statement when a `;`
\* token follows it and bare otherwise.
IsTopNode(node, item, i) ==
    IF item[2]
    THEN node.type = "Statement" /\ IsTopExpression(node.expression, item[1], i)
    ELSE IsTopExpression(node, item[1], i)

\* C12 (as claimed): the top-level loop emits the nodes in source order; an
\* expression is wrapped as Statement(expression) iff the token right after it
\* is a single `;`, which is consumed, and is emitted bare otherwise; the
\* expressions themselves hold no Statement.
C12_StatementIffSemicolon ==
    Finished =>
        \A layout \in TopLayouts :
            IsInputC12(layout) =>
                /\ status = "done"
                /\ Len(statements) = Len(layout)
                /\ \A i \in 1..Len(layout) :
                      IsTopNode(statements[i], layout[i], i)

\* The same statement for the inputs without the string literal `";"`; it
\* holds, so the string literal is the only item the loop frames wrongly.
C12_WithoutSemicolonString ==
    Finished =>
        \A layout \in TopLayouts :
            (IsInputC12(layout)
             /\ \A i \in 1..Len(layout) : layout[i][1] # "semicolon string") =>
                /\ status = "done"
                /\ Len(statements) = Len(layout)
                /\ \A i \in 1..Len(layout) :
                      IsTopNode(statements[i], layout[i], i)

-----------------------------------------------------------------------------
(* C13: call arguments *)

MaxCallArgs == 2

PositionalKinds == {"number", "assign", "matrix"}

KeywordKinds == {"pair", "bare", "number", "sum", "system", "proto"}

\* The tokens of the argument of the given kind at place i: `1`, `a := 1`,
\* `[1; 2]`, `a`, `a + 1`, `A` and `__proto__ := 1`.
CallPiece(kind, i) ==
    CASE kind = "number" -> <<Num(Digits[i])>>
      [] kind = "proto" -> <<Ident("__proto__"), Sym(":="), Num(Digits[i])>>
      [] kind \in {"assign", "pair"} ->
            <<Ident(Letters[i]), Sym(":="), Num(Digits[i])>>
      [] kind = "matrix" ->
            <<Sym("["), Num(Digits[i]), Sym(";"), Num(Digits[i + 1]), Sym("]")>>
      [] kind = "bare" -> <<Ident(Letters[i])>>
      [] kind = "sum" -> <<Ident(Letters[i]), Sym("+"), Num(Digits[i])>>
      [] OTHER -> <<SysIdent(Capitals[i])>>

\* The arguments of the given kinds, named from place `from` on, with commas
\* between them.
ArgList(kinds, from) ==
    Join([i \in 1..Len(kinds) |-> CallPiece(kinds[i], from + i - 1)], Sym(","))

ArgLayouts(kinds) == UNION {[1..n -> kinds] : n \in 0..MaxCallArgs}

\* `f(positional)` and `f(positional; keyword)`.
InputsC13 ==
    { <<Ident("f"), Sym("(")>> \o ArgList(pos, 1) \o <<Sym(")"), EndTok>> :
        pos \in ArgLayouts(PositionalKinds) }
    \cup
    { <<Ident("f"), Sym("(")>> \o ArgList(pos, 1) \o <<Sym(";")>>
        \o ArgList(kw, Len(pos) + 1) \o <<Sym(")"), EndTok>> :
        pos \in ArgLayouts(PositionalKinds), kw \in ArgLayouts(KeywordKinds) }

InitC13 == InitWith(InputsC13 \cup BaseInputs)

SpecC13 == InitC13 /\ [][Next]_vars

\* The input is `f( ... )` followed by End.
IsCall ==
    /\ Len(tokens) >= 4
    /\ tokens[1].type = "Identifier" /\ tokens[1].kind = "User"
    /\ tokens[2].type = "Symbol" /\ tokens[2].value = "("
    /\ tokens[Len(tokens)].type = "End"
    /\ ClosingIndex(tokens, 3, 1) = Len(tokens) - 1

\* The argument list split at the `;` of its own level.
CallSections == SplitAt(SubSeq(tokens, 3, Len(tokens) - 2), {";"}, 0, <<>>)

\* The arguments written before the `;` and after it.
PositionalWritten ==
    IF CallSections = <<>> THEN <<>>
    ELSE SplitAt(CallSections[1], {","}, 0, <<>>)

KeywordWritten ==
    IF Len(CallSections) < 2 THEN <<>>
    ELSE SplitAt(CallSections[2], {","}, 0, <<>>)

IsUserName(token) == token.type = "Identifier" /\ token.kind = "User"

IsMatrixWritten(element) ==
    Len(element) = 5 /\ element[1].value = "[" /\ element[3].value = ";"

\* A positional argument written as `1`, `a := 1` or `[1; 2]`.
IsPositionalWritten(element) ==
    \/ IsNumberElement(element)
    \/ IsKeyValuePair(element) /\ IsUserName(element[1])
    \/ IsMatrixWritten(element)

\* A keyword argument written as `name := expr` or as a bare name.
IsKeywordPair(element) == IsKeyValuePair(element) /\ IsUserName(element[1])

IsBareName(element) == Len(element) = 1 /\ IsUserName(element[1])

IsKeywordWritten(element) == IsKeywordPair(element) \/ IsBareName(element)

\* A call of at most two sections whose positional arguments are as above.
IsInputC13 ==
    /\ IsCall
    /\ Len(CallSections) <= 2
    /\ \A i \in 1..Len(PositionalWritten) :
          IsPositionalWritten(PositionalWritten[i])
    /\ \A i \in 1..Len(KeywordWritten) : KeywordWritten[i] # <<>>

\* node is the tree of the positional argument written with element.
IsPositionalNode(node, element) ==
    IF IsNumberElement(element) THEN IsAtomOf(node, element[1])
    ELSE IF IsMatrixWritten(element)
    THEN /\ node.type = "Matrix"
         /\ Len(node.rows) = 2
         /\ Len(node.rows[1]) = 1 /\ IsAtomOf(node.rows[1][1], element[2])
         /\ Len(node.rows[2]) = 1 /\ IsAtomOf(node.rows[2][1], element[4])
    ELSE /\ IsBinary(node, ":=")
         /\ IsAtomOf(node.left, element[1])
         /\ IsAtomOf(node.right, element[3])

\* entry is the keyword entry of the keyword argument written with element.
IsKeywordEntry(entry, element) ==
    /\ entry.key = element[1].value
    /\ IF IsBareName(element)
       THEN entry.value.type = "UserIdentifier"
            /\ entry.value.name = element[1].value
       ELSE IsAtomOf(entry.value, element[3])

\* The parser returned one FunctionCall of f with the arguments as written.
IsCallAsWritten ==
    /\ status = "done"
    /\ Len(statements) = 1
    /\ statements[1].type = "FunctionCall"
    /\ IsAtomOf(statements[1].function, tokens[1])
    /\ Len(statements[1].arguments.positional) = Len(PositionalWritten)
    /\ \A i \in 1..Len(PositionalWritten) :
          IsPositionalNode(statements[1].arguments.positional[i],
                           PositionalWritten[i])
    /\ Len(statements[1].arguments.keyword) = Len(KeywordWritten)
    /\ \A i \in 1..Len(KeywordWritten) :
          IsKeywordEntry(statements[1].arguments.keyword[i], KeywordWritten[i])

\* The first keyword argument that is neither `name := expr` nor a bare name.
FirstOther ==
    KeywordWritten[CHOOSE i \in 1..Len(KeywordWritten) :
                      /\ ~IsKeywordWritten(KeywordWritten[i])
                      /\ \A j \in 1..(i - 1) : IsKeywordWritten(KeywordWritten[j])]

\* C13 (as claimed): the arguments before the first `;` of the call's own
\* level are parsed as expressions into arguments.positional in order; those
\* after it go into arguments.keyword, `name := expr` as name -> expr and a
\* bare name as name -> UserIdentifier(name); anything else after the `;`
\* fails with 'Expected identifier for keyword argument'.
C13_AnythingElseExpectsIdentifier ==
    (Finished /\ IsInputC13) =>
        IF \A i \in 1..Len(KeywordWritten) : IsKeywordWritten(KeywordWritten[i])
        THEN IsCallAsWritten
        ELSE /\ status = "error"
             /\ error = "Expected identifier for keyword argument"

\* A keyword argument is named __proto__.
HasProtoKeyword ==
    \E i \in 1..Len(KeywordWritten) :
        KeywordWritten[i] # <<>> /\ KeywordWritten[i][1].value = "__proto__"

\* The calls without a keyword argument named __proto__ are filed as
\* claimed, except that only a keyword argument that does not begin with a
\* user identifier fails with 'Expected identifier for keyword argument';
\* one that begins with a name followed by something other than `:=`, `,`,
\* `;` or `)` fails with 'Expected closing parenthesis in function call'.
C13_CallArguments ==
    (Finished /\ IsInputC13 /\ ~HasProtoKeyword) =>
        IF \A i \in 1..Len(KeywordWritten) : IsKeywordWritten(KeywordWritten[i])
        THEN IsCallAsWritten
        ELSE /\ status = "error"
             /\ error = IF IsUserName(FirstOther[1])
                        THEN "Expected closing parenthesis in function call"
                        ELSE "Expected identifier for keyword argument"

\* `f([1; 2], b := 2; c := 3, d)` became a call with two positional and two
\* keyword arguments.
C13_Witness ==
    /\ IsInputC13
    /\ Len(PositionalWritten) = 2 /\ IsMatrixWritten(PositionalWritten[1])
    /\ Len(KeywordWritten) = 2
    /\ IsKeywordPair(KeywordWritten[1]) /\ IsBareName(KeywordWritten[2])
    /\ IsCallAsWritten

-----------------------------------------------------------------------------
(* C14: function definitions *)

MaxDefParams == 2

DefPositionalKinds == {"plain", "default", "guard", "both"}

DefKeywordKinds == {"pair", "bare", "both", "proto"}

\* The tokens of the parameter of the given kind at place i: `a`, `a := 1`,
\* `a ? a > 1`, `a := 1 ? a > 1` and `__proto__ := 1`.
DefPiece(kind, i) ==
    CASE kind \in {"plain", "bare"} -> <<Ident(Letters[i])>>
      [] kind = "proto" -> <<Ident("__proto__"), Sym(":="), Num(Digits[i])>>
      [] kind \in {"default", "pair"} ->
            <<Ident(Letters[i]), Sym(":="), Num(Digits[i])>>
      [] kind = "guard" ->
            <<Ident(Letters[i]), Sym("?"), Ident(Letters[i]), Sym(">"),
              Num(Digits[i])>>
      [] OTHER ->
            <<Ident(Letters[i]), Sym(":="), Num(Digits[i]), Sym("?"),
              Ident(Letters[i]), Sym(">"), Num(Digits[i])>>

DefList(kinds, from) ==
    Join([i \in 1..Len(kinds) |-> DefPiece(kinds[i], from + i - 1)], Sym(","))

DefLayouts(kinds) == UNION {[1..n -> kinds] : n \in 0..MaxDefParams}

DefBodies == { <<Num("7")>>, <<Ident("a"), Sym("+"), Num("1")>> }

\* `f(positional) :-> body` and `f(positional; keyword) :-> body`.
InputsC14 ==
    { <<Ident("f"), Sym("(")>> \o DefList(pos, 1) \o <<Sym(")"), Sym(":->")>>
        \o body \o <<EndTok>> :
        pos \in DefLayouts(DefPositionalKinds), body \in DefBodies }
    \cup
    { <<Ident("f"), Sym("(")>> \o DefList(pos, 1) \o <<Sym(";")>>
        \o DefList(kw, Len(pos) + 1) \o <<Sym(")"), Sym(":->")>>
        \o body \o <<EndTok>> :
        pos \in DefLayouts(DefPositionalKinds),
        kw \in DefLayouts(DefKeywordKinds), body \in DefBodies }

InitC14 == InitWith(InputsC14 \cup BaseInputs)

SpecC14 == InitC14 /\ [][Next]_vars

\* The index of the parenthesis that closes the argument list of `f(`.
DefClose == ClosingIndex(tokens, 3, 1)

\* The input is `f( ... ) :-> body` followed by End.
IsDefinition ==
    /\ Len(tokens) >= 6
    /\ IsUserName(tokens[1])
    /\ tokens[2].type = "Symbol" /\ tokens[2].value = "("
    /\ tokens[Len(tokens)].type = "End"
    /\ DefClose # 0 /\ DefClose + 2 < Len(tokens)
    /\ tokens[DefClose + 1].type = "Symbol" /\ tokens[DefClose + 1].value = ":->"

DefSections == SplitAt(SubSeq(tokens, 3, DefClose - 1), {";"}, 0, <<>>)

DefPositional ==
    IF DefSections = <<>> THEN <<>> ELSE SplitAt(DefSections[1], {","}, 0, <<>>)

DefKeyword ==
    IF Len(DefSections) < 2 THEN <<>>
    ELSE SplitAt(DefSections[2], {","}, 0, <<>>)

DefBody == SubSeq(tokens, DefClose + 2, Len(tokens) - 1)

\* The shapes of a parameter: `x`, `x := v`, `x ? c` and `x := v ? c`, with c
\* written `y > n`.
IsPlain(element) == Len(element) = 1 /\ IsUserName(element[1])

IsDefault(element) ==
    /\ Len(element) = 3 /\ IsUserName(element[1])
    /\ element[2].value = ":=" /\ element[3].type = "Number"

IsGuard(element) ==
    /\ Len(element) = 5 /\ IsUserName(element[1])
    /\ element[2].value = "?" /\ element[4].value = ">"

IsDefaultGuard(element) ==
    /\ Len(element) = 7 /\ IsUserName(element[1])
    /\ element[2].value = ":=" /\ element[3].type = "Number"
    /\ element[4].value = "?" /\ element[6].value = ">"

HasCondition(element) == IsGuard(element) \/ IsDefaultGuard(element)

IsParameterWritten(element) ==
    IsPlain(element) \/ IsDefault(element) \/ HasCondition(element)

IsInputC14 ==
    /\ IsDefinition
    /\ Len(DefSections) <= 2
    /\ \A i \in 1..Len(DefPositional) : IsParameterWritten(DefPositional[i])
    /\ \A i \in 1..Len(DefKeyword) :
          IsParameterWritten(DefKeyword[i]) /\ ~IsGuard(DefKeyword[i])

\* param is the positional parameter of the argument written with element.
IsPositionalParameter(param, element) ==
    /\ param.name = element[1].value
    /\ IF IsDefault(element) \/ IsDefaultGuard(element)
       THEN IsAtomOf(param.defaultValue, element[3])
       ELSE param.defaultValue = Null

\* param is the keyword parameter of the argument written with element.
IsKeywordParameter(param, element) ==
    /\ param.name = element[1].value
    /\ IF IsPlain(element)
       THEN IsAtomOf(param.defaultValue, element[1])
       ELSE IsAtomOf(param.defaultValue, element[3])

\* node is the tree of the condition `y > n` written at the end of element.
IsConditionOf(node, element) ==
    /\ IsBinary(node, ">")
    /\ IsAtomOf(node.left, element[Len(element) - 2])
    /\ IsAtomOf(node.right, element[Len(element)])

\* The arguments that carry a condition, in source order.
Conditioned == SelectSeq(DefPositional \o DefKeyword, HasCondition)

IsBodyNode(node) ==
    IF Len(DefBody) = 1 THEN IsAtomOf(node, DefBody[1])
    ELSE /\ IsBinary(node, DefBody[2].value)
         /\ IsAtomOf(node.left, DefBody[1])
         /\ IsAtomOf(node.right, DefBody[3])

\* The parser returned the FunctionDefinition of the arguments as written.
IsLoweredAsWritten ==
    /\ status = "done"
    /\ Len(statements) = 1
    /\ statements[1].type = "FunctionDefinition"
    /\ IsAtomOf(statements[1].name, tokens[1])
    /\ IsBodyNode(statements[1].body)
    /\ Len(statements[1].parameters.positional) = Len(DefPositional)
    /\ \A i \in 1..Len(DefPositional) :
          IsPositionalParameter(statements[1].parameters.positional[i],
                                DefPositional[i])
    /\ Len(statements[1].parameters.keyword) = Len(DefKeyword)
    /\ \A i \in 1..Len(DefKeyword) :
          IsKeywordParameter(statements[1].parameters.keyword[i],
                             DefKeyword[i])
    /\ Len(statements[1].parameters.conditionals) = Len(Conditioned)
    /\ \A i \in 1..Len(Conditioned) :
          IsConditionOf(statements[1].parameters.conditionals[i],
                        Conditioned[i])

\* C14: `f(args) :-> body` is a FunctionDefinition named by the call's
\* function node; a positional `x` gives {x, null}, `x := v` gives {x, v},
\* `x ? c` gives {x, null} and `x := v ? c` gives {x, v}, both appending c to
\* the conditionals; a keyword argument gives a keyword parameter whose
\* default is its value, a `? c` on it going to the conditionals; the
\* positional parameters keep the order of the arguments.
C14_FunctionDefinition == (Finished /\ IsInputC14) => IsLoweredAsWritten

\* A keyword argument is named __proto__.
HasProtoParameter ==
    \E i \in 1..Len(DefKeyword) :
        DefKeyword[i] # <<>> /\ DefKeyword[i][1].value = "__proto__"

\* The same for the definitions without a keyword argument named
\* __proto__; it holds.
C14_OtherNames ==
    (Finished /\ IsInputC14 /\ ~HasProtoParameter) => IsLoweredAsWritten

\* `f(a ? a > 1, b := 2 ? b > 2; c := 3 ? c > 3) :-> a + 1` was lowered with
\* three conditionals.
C14_Witness ==
    /\ IsInputC14
    /\ status = "done"
    /\ Len(DefPositional) = 2
    /\ IsGuard(DefPositional[1]) /\ IsDefaultGuard(DefPositional[2])
    /\ Len(DefKeyword) = 1 /\ IsDefaultGuard(DefKeyword[1])
    /\ Len(DefBody) = 3
    /\ Len(statements[1].parameters.conditionals) = 3

-----------------------------------------------------------------------------
(* C15: lowering of `->` *)

MaxLambdaItems == 3

LambdaItemKinds == {"name", "number", "sum"}

\* The tokens of the item of the given kind at place i of the left side:
\* `a`, `1` and `a + 1`.
LambdaItem(kind, i) ==
    CASE kind = "name" -> <<Ident(Letters[i])>>
      [] kind = "number" -> <<Num(Digits[i])>>
      [] OTHER -> <<Ident(Letters[i]), Sym("+"), Num(Digits[i])>>

\* The left sides: `(item, ...)`, `(a ? a > 1)`, `(a; b := 2)`, `()` and the
\* bare name `a`.
LambdaLefts ==
    { <<Sym("(")>> \o Join([i \in 1..Len(p) |-> LambdaItem(p[i], i)], Sym(","))
        \o <<Sym(")")>> :
        p \in UNION {[1..n -> LambdaItemKinds] : n \in 1..MaxLambdaItems} }
    \cup
    { <<Sym("(")>> \o DefPiece("guard", 1) \o <<Sym(")")>>,
      <<Sym("(")>> \o DefPiece("plain", 1) \o <<Sym(";")>>
        \o DefPiece("default", 2) \o <<Sym(")")>>,
      <<Sym("("), Sym(")")>>,
      <<Ident("a")>> }

InputsC15 ==
    { left \o <<Sym("->")>> \o body \o <<EndTok>> :
        left \in LambdaLefts, body \in DefBodies }

InitC15 == InitWith(InputsC15 \cup BaseInputs)

SpecC15 == InitC15 /\ [][Next]_vars

IsParenthesised == tokens[1].type = "Symbol" /\ tokens[1].value = "("

\* The index of the last token of the left side.
LeftClose == IF IsParenthesised THEN ClosingIndex(tokens, 2, 1) ELSE 1

\* The input is `left -> body` followed by End, left being a bare name or
\* one pair of parentheses.
IsArrow ==
    /\ Len(tokens) >= 4
    /\ IsParenthesised \/ IsUserName(tokens[1])
    /\ tokens[Len(tokens)].type = "End"
    /\ LeftClose # 0 /\ LeftClose + 2 < Len(tokens)
    /\ tokens[LeftClose + 1].type = "Symbol" /\ tokens[LeftClose + 1].value = "->"

\* The items between the parentheses of the left side.
LeftItems == SplitAt(SubSeq(tokens, 2, LeftClose - 1), {",", ";"}, 0, <<>>)

LeftSeparators ==
    {tokens[i].value : i \in {j \in DepthZero(tokens, 2, LeftClose - 1, 0) :
                                 tokens[j].value \in {",", ";"}}}

ArrowBody == SubSeq(tokens, LeftClose + 2, Len(tokens) - 1)

IsArrowBody(node) ==
    IF Len(ArrowBody) = 1 THEN IsAtomOf(node, ArrowBody[1])
    ELSE /\ IsBinary(node, ArrowBody[2].value)
         /\ IsAtomOf(node.left, ArrowBody[1])
         /\ IsAtomOf(node.right, ArrowBody[3])

IsInputC15 ==
    /\ IsArrow
    /\ Len(ArrowBody) \in {1, 3}
    /\ IsParenthesised =>
          \A i \in 1..Len(LeftItems) :
              \/ IsParameterWritten(LeftItems[i])
              \/ IsNumberElement(LeftItems[i])
              \/ IsPairWith(LeftItems[i], {"+"})

\* The left side is a parameter list with `;`, `(name)`, `(name ? cond)` or
\* a tuple of names.
IsParameterShape ==
    /\ IsParenthesised
    /\ \/ ";" \in LeftSeparators
       \/ /\ LeftSeparators = {}
          /\ Len(LeftItems) = 1
          /\ IsPlain(LeftItems[1]) \/ IsGuard(LeftItems[1])
       \/ /\ LeftSeparators = {","} \/ LeftItems = <<>>
          /\ \A i \in 1..Len(LeftItems) : IsPlain(LeftItems[i])

\* The parser returned a FunctionLambda whose positional parameters are the
\* names written on the left side.
IsLambdaAsWritten ==
    /\ statements[1].type = "FunctionLambda"
    /\ IsArrowBody(statements[1].body)
    /\ Len(statements[1].parameters.positional)
         = (IF ";" \in LeftSeparators THEN 1 ELSE Len(LeftItems))
    /\ \A i \in 1..Len(statements[1].parameters.positional) :
          statements[1].parameters.positional[i].name = LeftItems[i][1].value
    /\ Len(statements[1].parameters.conditionals)
         = Len(SelectSeq(LeftItems, IsGuard))

\* The parser returned the plain `->` operation with the left side kept.
IsPlainArrow ==
    /\ IsBinary(statements[1], "->")
    /\ IsArrowBody(statements[1].right)
    /\ statements[1].left.type =
         (IF ~IsParenthesised THEN "UserIdentifier"
          ELSE IF LeftSeparators = {} THEN "Grouping" ELSE "Tuple")

\* C15 (as claimed): `L -> body` is a FunctionLambda only when L is
\* Grouping(ParameterList), Grouping(UserIdentifier), Grouping(name ? cond)
\* or a Tuple of UserIdentifiers; for every other L the result is the plain
\* BinaryOperation '->' with L as its left operand.
C15_LambdaOnlyForParameterShapes ==
    (Finished /\ IsInputC15) =>
        /\ status = "done"
        /\ Len(statements) = 1
        /\ IF IsParameterShape THEN IsLambdaAsWritten ELSE IsPlainArrow

\* The same statement for the left sides that are a parameter shape or a
\* bare name; it holds.
C15_ParameterShapes ==
    (Finished /\ IsInputC15 /\ (IsParameterShape \/ ~IsParenthesised)) =>
        /\ status = "done"
        /\ Len(statements) = 1
        /\ IF IsParameterShape THEN IsLambdaAsWritten ELSE IsPlainArrow

-----------------------------------------------------------------------------
(* C16: pattern-matching functions *)

MaxPatterns == 2

PatternKinds == {"plain", "guard", "tuple"}

\* The tokens of the lambda of the given kind at place i: `(a) -> 1`,
\* `(a ? a > 1) -> 1` and `(a, b) -> 1`.
PatternPiece(kind, i) ==
    CASE kind = "plain" ->
            <<Sym("("), Ident(Letters[i]), Sym(")"), Sym("->"), Num(Digits[i])>>
      [] kind = "guard" ->
            <<Sym("(")>> \o DefPiece("guard", i)
            \o <<Sym(")"), Sym("->"), Num(Digits[i])>>
      [] OTHER ->
            <<Sym("("), Ident(Letters[i]), Sym(","), Ident(Letters[i + 1]),
              Sym(")"), Sym("->"), Num(Digits[i])>>

PatternList(kinds) ==
    <<Sym("[")>>
    \o Join([i \in 1..Len(kinds) |-> PatternPiece(kinds[i], i)], Sym(","))
    \o <<Sym("]")>>

PatternMetadata == <<Ident("n"), Sym(":="), Num("4")>>

\* The shapes of the right side: `[l1, l2]`, `[[l1, l2], n := 4]`,
\* `[n := 4, [l1, l2]]`, `[[[l1, l2]], n := 4]` and the single lambda `l1`.
PatternShapes == {"array", "metadata after", "metadata before", "nested", "single"}

PatternRight(shape, kinds) ==
    CASE shape = "array" -> PatternList(kinds)
      [] shape = "metadata after" ->
            <<Sym("[")>> \o PatternList(kinds) \o <<Sym(",")>>
            \o PatternMetadata \o <<Sym("]")>>
      [] shape = "metadata before" ->
            <<Sym("[")>> \o PatternMetadata \o <<Sym(",")>>
            \o PatternList(kinds) \o <<Sym("]")>>
      [] shape = "nested" ->
            <<Sym("["), Sym("[")>> \o PatternList(kinds) \o <<Sym("]"), Sym(",")>>
            \o PatternMetadata \o <<Sym("]")>>
      [] OTHER -> PatternPiece(kinds[1], 1)

PatternHeads == { <<Ident("g")>>, <<Ident("g"), Sym("("), Ident("z"), Sym(")")>> }

\* The head, the shape of the right side and the kinds of its lambdas.
PatternLayouts ==
    { <<head, shape, kinds>> :
        head \in PatternHeads, shape \in PatternShapes,
        kinds \in UNION {[1..n -> PatternKinds] : n \in 1..MaxPatterns} }

PatternInput(layout) ==
    layout[1] \o <<Sym(":=>")>> \o PatternRight(layout[2], layout[3])
    \o <<EndTok>>

InputsC16 ==
    { PatternInput(layout) :
        layout \in {l \in PatternLayouts : l[2] = "single" => Len(l[3]) = 1} }

InitC16 == InitWith(InputsC16 \cup BaseInputs)

SpecC16 == InitC16 /\ [][Next]_vars

IsInputC16(layout) ==
    /\ layout[2] = "single" => Len(layout[3]) = 1
    /\ tokens = WithPos(PatternInput(layout))

\* pattern is the {parameters, body} entry of the lambda of the given kind at
\* place i.
IsPatternOf(pattern, kind, i) ==
    /\ DOMAIN pattern = {"parameters", "body"}
    /\ IsNumberNode(pattern.body, Digits[i])
    /\ Len(pattern.parameters.positional) = (IF kind = "tuple" THEN 2 ELSE 1)
    /\ \A j \in 1..Len(pattern.parameters.positional) :
          /\ pattern.parameters.positional[j].name = Letters[i + j - 1]
          /\ pattern.parameters.positional[j].defaultValue = Null
    /\ IF kind = "guard"
       THEN /\ Len(pattern.parameters.conditionals) = 1
            /\ IsBinary(pattern.parameters.conditionals[1], ">")
            /\ pattern.parameters.conditionals[1].left.name = Letters[i]
            /\ IsNumberNode(pattern.parameters.conditionals[1].right, Digits[i])
       ELSE pattern.parameters.conditionals = <<>>

\* The parser returned the PatternMatchingFunction of the layout.
IsPatternMatchingOf(layout) ==
    /\ status = "done"
    /\ Len(statements) = 1
    /\ statements[1].type = "PatternMatchingFunction"
    /\ statements[1].name.type = "UserIdentifier"
    /\ statements[1].name.name = "g"
    /\ Len(statements[1].patterns) = Len(layout[3])
    /\ \A i \in 1..Len(layout[3]) :
          IsPatternOf(statements[1].patterns[i], layout[3][i], i)
    /\ IF layout[2] \in {"array", "single"} THEN statements[1].metadata = <<>>
       ELSE /\ Len(statements[1].metadata) = 1
            /\ statements[1].metadata[1].key = "n"
            /\ IsNumberNode(statements[1].metadata[1].value, "4")

\* C16 (as claimed): for `head :=> R` the patterns are one {parameters, body}
\* entry per lambda of R in source order, for R an array of lambdas, an array
\* with metadata whose primary is or nests that array, and a single lambda;
\* the metadata of an array with metadata is lifted to the function and is
\* empty otherwise; the condition of a `(x ? c)` lambda is in that pattern's
\* conditionals.
C16_OnePatternPerLambda ==
    Finished =>
        \A layout \in PatternLayouts :
            IsInputC16(layout) => IsPatternMatchingOf(layout)

\* The same statement for the right sides in which no metadata comes before
\* the array of lambdas; it holds.
C16_MetadataNotFirst ==
    Finished =>
        \A layout \in PatternLayouts :
            (IsInputC16(layout) /\ layout[2] # "metadata before") =>
                IsPatternMatchingOf(layout)

-----------------------------------------------------------------------------
(* C17: the parenthesised list after a derivative or an integral *)

MaxCalculusItems == 2

\* The expressions without a calculus operation, those with one at the top,
\* under a binary operation or in an array, and those with one under a unary
\* operation, in a grouping or among the arguments of a call.
PlainKinds == {"number", "sum"}

DirectKinds == {"derivative", "integral", "binary", "container"}

CoveredKinds == {"unary", "grouping", "argument"}

CalculusKinds == PlainKinds \cup DirectKinds \cup CoveredKinds

\* `1`, `a + 1`, `g'`, `'g`, `1 + g'`, `[g']`, `-g'`, `(g')` and `h(g')`.
CalculusItem(kind) ==
    CASE kind = "number" -> <<Num("1")>>
      [] kind = "sum" -> <<Ident("a"), Sym("+"), Num("1")>>
      [] kind = "derivative" -> <<Ident("g"), Sym("'")>>
      [] kind = "integral" -> <<Sym("'"), Ident("g")>>
      [] kind = "binary" -> <<Num("1"), Sym("+"), Ident("g"), Sym("'")>>
      [] kind = "container" -> <<Sym("["), Ident("g"), Sym("'"), Sym("]")>>
      [] kind = "unary" -> <<Sym("-"), Ident("g"), Sym("'")>>
      [] kind = "grouping" -> <<Sym("("), Ident("g"), Sym("'"), Sym(")")>>
      [] OTHER -> <<Ident("h"), Sym("("), Ident("g"), Sym("'"), Sym(")")>>

CalculusLists ==
    UNION {[1..n -> CalculusKinds] : n \in 0..MaxCalculusItems}

\* `f'` and `'f`.
CalculusHeads == {<<Ident("f"), Sym("'")>>, <<Sym("'"), Ident("f")>>}

\* `f'(item, ...)` and `'f(item, ...)`.
InputsC17 ==
    { head \o <<Sym("(")>>
        \o Join([i \in 1..Len(p) |-> CalculusItem(p[i])], Sym(","))
        \o <<Sym(")"), EndTok>> :
        head \in CalculusHeads, p \in CalculusLists }

InitC17 == InitWith(InputsC17 \cup BaseInputs)

SpecC17 == InitC17 /\ [][Next]_vars

IsQuote(token) == token.type = "Symbol" /\ token.value = "'"

\* The input is `f'( ... )` or `'f( ... )` followed by End.
IsCalculusList ==
    /\ Len(tokens) >= 5
    /\ \/ IsUserName(tokens[1]) /\ IsQuote(tokens[2])
       \/ IsQuote(tokens[1]) /\ IsUserName(tokens[2])
    /\ tokens[3].type = "Symbol" /\ tokens[3].value = "("
    /\ ClosingIndex(tokens, 4, 1) = Len(tokens) - 1
    /\ tokens[Len(tokens)].type = "End"

\* The expressions written between the parentheses.
CalculusWritten ==
    SplitAt(SubSeq(tokens, 4, Len(tokens) - 2), {","}, 0, <<>>)

\* The expression has a quote, hence a derivative or an integral, somewhere.
HasQuote(element) == \E i \in 1..Len(element) : IsQuote(element[i])

\* The quote of the expression is its operator, under a binary operation or
\* in an array.
IsDirect(element) ==
    \E kind \in DirectKinds : ValuesOf(element, 1, Len(element))
         = ValuesOf(CalculusItem(kind), 1, Len(CalculusItem(kind)))

IsInputC17 ==
    /\ IsCalculusList
    /\ \A i \in 1..Len(CalculusWritten) :
          \E kind \in CalculusKinds :
              ValuesOf(CalculusWritten[i], 1, Len(CalculusWritten[i]))
                = ValuesOf(CalculusItem(kind), 1, Len(CalculusItem(kind)))

\* The parser returned the derivative or the integral of f with the list
\* stored as `operations` when some expression has a calculus operation and
\* as `evaluation` otherwise, the other of the two being null.
IsCalculusAsWritten ==
    /\ statements[1].type
         = (IF IsQuote(tokens[1]) THEN "Integral" ELSE "Derivative")
    /\ statements[1].function.name = "f"
    /\ IF \E i \in 1..Len(CalculusWritten) : HasQuote(CalculusWritten[i])
       THEN /\ statements[1].evaluation = NullList
            /\ statements[1].operations # NullList
            /\ Len(statements[1].operations) = Len(CalculusWritten)
       ELSE /\ statements[1].operations = NullList
            /\ statements[1].evaluation # NullList
            /\ Len(statements[1].evaluation) = Len(CalculusWritten)

\* C17 (as claimed): the parenthesised list after a derivative or an
\* integral is stored as `operations` exactly when at least one of its
\* expressions contains a derivative or an integral anywhere in its subtree,
\* whatever node kinds lie in between (unary operation, grouping, call
\* arguments, binary operation, container), and as `evaluation` otherwise;
\* exactly one of the two is non-null.
C17_OperationsIffCalculusAnywhere ==
    (Finished /\ IsInputC17) =>
        /\ status = "done"
        /\ Len(statements) = 1
        /\ IsCalculusAsWritten

\* The same statement for the lists in which every calculus operation is
\* the expression itself, an operand of a binary operation or an element of
\* an array; it holds.
C17_DirectChildren ==
    (/\ Finished
     /\ IsInputC17
     /\ \A i \in 1..Len(CalculusWritten) :
           HasQuote(CalculusWritten[i]) => IsDirect(CalculusWritten[i])) =>
        /\ status = "done"
        /\ Len(statements) = 1
        /\ IsCalculusAsWritten

-----------------------------------------------------------------------------
(* C18: postfix derivatives and prefix integrals *)

MaxQuotes == 3

Quotes(k) == [i \in 1..k |-> Sym("'")]

\* The places of the operand: alone, `-X`, `2 ^ X`, `2 + X` and `X + 2`;
\* the operand is parsed at the minimum precedences 0, UNARY,
\* EXPONENTIATION, ADDITION + 1 and 0.
QuoteContexts == {"none", "minus", "power", "sum", "left"}

InContext(context, toks) ==
    CASE context = "none" -> toks
      [] context = "minus" -> <<Sym("-")>> \o toks
      [] context = "power" -> <<Num("2"), Sym("^")>> \o toks
      [] context = "sum" -> <<Num("2"), Sym("+")>> \o toks
      [] OTHER -> toks \o <<Sym("+"), Num("2")>>

\* What the run of quotes follows: `f`, `F`, `f(1)`, `a[1]`, `f'(1)` and
\* `'f`.
QuoteBases ==
    {"name", "system", "call", "property", "derivative", "integral"}

QuoteBase(base) ==
    CASE base = "name" -> <<Ident("f")>>
      [] base = "system" -> <<SysIdent("F")>>
      [] base = "call" -> <<Ident("f"), Sym("("), Num("1"), Sym(")")>>
      [] base = "property" -> <<Ident("a"), Sym("["), Num("1"), Sym("]")>>
      [] base = "derivative" ->
           <<Ident("f"), Sym("'"), Sym("("), Num("1"), Sym(")")>>
      [] OTHER -> <<Sym("'"), Ident("f")>>

\* What follows a run of quotes in prefix position: `f`, `F`, `1`, `(f)`,
\* `"f"` and nothing.
QuoteFollowers == {"name", "system", "number", "group", "string", "nothing"}

QuoteFollower(follower) ==
    CASE follower = "name" -> <<Ident("f")>>
      [] follower = "system" -> <<SysIdent("F")>>
      [] follower = "number" -> <<Num("1")>>
      [] follower = "group" -> <<Sym("("), Ident("f"), Sym(")")>>
      [] follower = "string" -> <<Str("f")>>
      [] OTHER -> <<>>

DerivativeLayouts ==
    [context : QuoteContexts, base : QuoteBases, order : 1..MaxQuotes]

IntegralLayouts ==
    [context : QuoteContexts, follower : QuoteFollowers, order : 1..MaxQuotes]

DerivativeInput(layout) ==
    InContext(layout.context, QuoteBase(layout.base) \o Quotes(layout.order))
      \o <<EndTok>>

IntegralInput(layout) ==
    InContext(layout.context,
              Quotes(layout.order) \o QuoteFollower(layout.follower))
      \o <<EndTok>>

InputsC18 ==
    {DerivativeInput(layout) : layout \in DerivativeLayouts}
    \cup {IntegralInput(layout) : layout \in IntegralLayouts}

InitC18 == InitWith(InputsC18 \cup BaseInputs)

SpecC18 == InitC18 /\ [][Next]_vars

\* The node is the operand written at the given place.
IsInQuoteContext(node, context) ==
    CASE context = "none" -> TRUE
      [] context = "minus" ->
           node.type = "UnaryOperation" /\ node.operator = "-"
      [] context = "power" -> IsBinary(node, "^") /\ node.left.value = "2"
      [] context = "sum" -> IsBinary(node, "+") /\ node.left.value = "2"
      [] OTHER -> IsBinary(node, "+") /\ node.right.value = "2"

QuoteOperand(node, context) ==
    CASE context = "none" -> node
      [] context = "minus" -> node.operand
      [] context \in {"power", "sum"} -> node.right
      [] OTHER -> node.left

IsQuoteBase(node, base) ==
    CASE base = "name" -> node.type = "UserIdentifier" /\ node.name = "f"
      [] base = "system" -> node.type = "SystemIdentifier" /\ node.name = "F"
      [] base = "call" ->
           /\ node.type = "FunctionCall"
           /\ node.function.name = "f"
           /\ Len(node.arguments.positional) = 1
      [] base = "property" ->
           /\ node.type = "PropertyAccess"
           /\ node.object.name = "a"
           /\ node.property.value = "1"
      [] base = "derivative" ->
           /\ node.type = "Derivative"
           /\ node.order = 1
           /\ node.function.type = "UserIdentifier"
           /\ node.function.name = "f"
           /\ node.evaluation # NullList
           /\ Len(node.evaluation) = 1
      [] OTHER ->
           /\ node.type = "Integral"
           /\ node.order = 1
           /\ node.function.type = "UserIdentifier"
           /\ node.function.name = "f"

\* The node is the derivative of the order written, over the node written
\* before the run of quotes.
IsDerivativeOf(node, layout) ==
    /\ node.type = "Derivative"
    /\ node.order = layout.order
    /\ IsQuoteBase(node.function, layout.base)
    /\ node.variables = NullList
    /\ node.evaluation = NullList
    /\ node.operations = NullList

\* The node is the integral of the order written, of the name that follows
\* the run of quotes.
IsIntegralOf(node, layout) ==
    /\ node.type = "Integral"
    /\ node.order = layout.order
    /\ node.metadata = [integrationConstant |-> "c", defaultValue |-> 0]
    /\ IsQuoteBase(node.function, layout.follower)
    /\ node.variables = NullList
    /\ node.evaluation = NullList
    /\ node.operations = NullList

ExpectedFunctionName == "Expected function name after integral operator"

\* C18: a run of k quotes directly after an identifier, a FunctionCall, a
\* PropertyAccess, a Derivative or an Integral gives the Derivative of order
\* k over that node, whatever the minimum precedence the operand is parsed
\* at; a run of k quotes in prefix position gives the Integral of order k
\* with metadata {integrationConstant: 'c', defaultValue: 0} when a bare
\* identifier follows the run, and fails with 'Expected function name after
\* integral operator' otherwise.
C18_DerivativeAndIntegral ==
    Finished =>
        /\ \A layout \in DerivativeLayouts :
              tokens = WithPos(DerivativeInput(layout)) =>
                  /\ status = "done"
                  /\ Len(statements) = 1
                  /\ IsInQuoteContext(statements[1], layout.context)
                  /\ IsDerivativeOf(
                       QuoteOperand(statements[1], layout.context), layout)
        /\ \A layout \in IntegralLayouts :
              tokens = WithPos(IntegralInput(layout)) =>
                  IF layout.follower \in {"name", "system"}
                  THEN /\ status = "done"
                       /\ Len(statements) = 1
                       /\ IsInQuoteContext(statements[1], layout.context)
                       /\ IsIntegralOf(
                            QuoteOperand(statements[1], layout.context),
                            layout)
                  ELSE /\ status = "error"
                       /\ error = ExpectedFunctionName

\* `-'f''` was parsed: the derivative of order 2 of the integral of f, as
\* the operand of the unary minus.
C18_Witness ==
    /\ tokens = WithPos(DerivativeInput(
                  [context |-> "minus", base |-> "integral", order |-> 2]))
    /\ status = "done"
    /\ statements[1].operand.type = "Derivative"
    /\ statements[1].operand.order = 2
    /\ statements[1].operand.function.type = "Integral"

-----------------------------------------------------------------------------
(* C19: the header colon of an embedded-language string *)

MaxContent == 5

\* A letter, a space, a white space beyond ASCII, the parentheses and the
\* colon.
ContentChars == {"P", " ", "U+2003", "(", ")", ":"}

\* Every backtick content of 1..MaxContent characters.
Contents == UNION {[1..n -> ContentChars] : n \in 1..MaxContent}

InputsC19 == {<<Backtick(content), EndTok>> : content \in Contents}

InitC19 == InitWith(InputsC19 \cup BaseInputs)

SpecC19 == InitC19 /\ [][Next]_vars

IsBacktickInput ==
    /\ Len(tokens) = 2
    /\ tokens[1].type = "String" /\ tokens[1].kind = "backtick"
    /\ tokens[2].type = "End"

BacktickContent == tokens[1].chars

\* The places of the character ch in str, and the first of a set of places.
Places(str, ch) == {i \in 1..Len(str) : str[i] = ch}

First(places) == CHOOSE i \in places : \A j \in places : i <= j

\* The place of the `)` that closes the `(` at place p of str, 0 when there
\* is none: the first place where as many `)` as `(` have been read.
CloseOf(str, p) ==
    IF \E m \in p..Len(str) :
          Cardinality(Places(SubSeq(str, p, m), "("))
            = Cardinality(Places(SubSeq(str, p, m), ")"))
    THEN First({m \in p..Len(str) :
                  Cardinality(Places(SubSeq(str, p, m), "("))
                    = Cardinality(Places(SubSeq(str, p, m), ")"))})
    ELSE 0

\* str is white space only.
IsBlank(str) == \A i \in 1..Len(str) : str[i] \in Whitespace

\* str without its leading and trailing white space.
Trimmed(str) ==
    IF IsBlank(str) THEN <<>>
    ELSE SubSeq(str, First({i \in 1..Len(str) : str[i] \notin Whitespace}),
                CHOOSE i \in 1..Len(str) :
                    /\ str[i] \notin Whitespace
                    /\ \A j \in (i + 1)..Len(str) : str[j] \in Whitespace)

\* A field of the node as the parser stores a string: null when empty.
OrNull(str) == IF str = <<>> THEN NullChars ELSE str

\* The content has a colon that is not its first character.
HasHeader == Places(BacktickContent, ":") # {} /\ BacktickContent[1] # ":"

FirstColon == First(Places(BacktickContent, ":"))

Prefix == SubSeq(BacktickContent, 1, FirstColon - 1)

\* The text before the first colon has no parenthesis.
IsWithoutContext ==
    /\ HasHeader
    /\ Places(Prefix, "(") = {} /\ Places(Prefix, ")") = {}

ContextOpen == First(Places(BacktickContent, "("))

ContextClose == CloseOf(BacktickContent, ContextOpen)

ColonsAfterContext == {i \in Places(BacktickContent, ":") : i > ContextClose}

\* The header is `language(context)` followed by a colon: the parenthesis
\* opens before the first colon and is closed, and only blanks stand
\* between its `)` and the next colon.
IsWithContext ==
    /\ HasHeader
    /\ Places(Prefix, "(") # {}
    /\ Places(SubSeq(BacktickContent, 1, ContextOpen - 1), ")") = {}
    /\ ContextClose # 0
    /\ ColonsAfterContext # {}
    /\ IsBlank(SubSeq(BacktickContent, ContextClose + 1,
                      First(ColonsAfterContext) - 1))

IsEmbedded(node, language, context, body) ==
    /\ node.type = "EmbeddedLanguage"
    /\ node.language = language
    /\ node.context = context
    /\ node.body = body

\* The node for the header colon the claim names.
IsEmbeddedAsWritten ==
    IF IsWithoutContext
    THEN IsEmbedded(statements[1], OrNull(Trimmed(Prefix)), NullChars,
                    SubSeq(BacktickContent, FirstColon + 1, Len(BacktickContent)))
    ELSE IsEmbedded(statements[1],
                    OrNull(Trimmed(SubSeq(BacktickContent, 1, ContextOpen - 1))),
                    Trimmed(SubSeq(BacktickContent, ContextOpen + 1,
                                   ContextClose - 1)),
                    SubSeq(BacktickContent, First(ColonsAfterContext) + 1,
                           Len(BacktickContent)))

\* C19 (as claimed): for backtick content with a colon that is not its
\* first character, the header colon is the first colon when the text
\* before it has no parenthesis, whatever the body contains: language is
\* the trimmed prefix, context is null and body is everything after that
\* colon; with a parenthesised context the header colon is the first colon
\* after the matching `)`; and the language of a successful parse contains
\* no colon.
C19_HeaderColon ==
    (Finished /\ IsBacktickInput /\ HasHeader) =>
        /\ (IsWithoutContext \/ IsWithContext) =>
              /\ status = "done"
              /\ Len(statements) = 1
              /\ IsEmbeddedAsWritten
        /\ status = "done" => Places(statements[1].language, ":") = {}

\* The same statement for the contents whose parentheses, if any, open
\* before the first colon; it holds.
C19_ParenthesesInHeaderOnly ==
    (/\ Finished
     /\ IsBacktickInput
     /\ HasHeader
     /\ Places(SubSeq(BacktickContent, FirstColon + 1, Len(BacktickContent)), "(") # {}
          => Places(Prefix, "(") # {}) =>
        /\ (IsWithoutContext \/ IsWithContext) =>
              /\ status = "done"
              /\ Len(statements) = 1
              /\ IsEmbeddedAsWritten
        /\ status = "done" => Places(statements[1].language, ":") = {}

-----------------------------------------------------------------------------
(* C20: the errors of a malformed embedded-language header *)

MaxHeader == 4

HeaderChars == {"P", " ", "U+2003", "(", ")"}

\* Every header of 1..MaxHeader characters, followed by the body `:P`.
Headers == UNION {[1..n -> HeaderChars] : n \in 1..MaxHeader}

InputsC20 ==
    {<<Backtick(header \o <<":", "P">>), EndTok>> : header \in Headers}

InitC20 == InitWith(InputsC20 \cup BaseInputs)

SpecC20 == InitC20 /\ [][Next]_vars

\* The content is a header without a colon, the colon and a body without
\* parentheses and colons.
IsInputC20 ==
    /\ IsBacktickInput
    /\ HasHeader
    /\ Places(BacktickContent, ":") = {FirstColon}
    /\ Places(SubSeq(BacktickContent, FirstColon + 1, Len(BacktickContent)),
              "(") = {}
    /\ Places(SubSeq(BacktickContent, FirstColon + 1, Len(BacktickContent)),
              ")") = {}

HeaderOpens == Places(Prefix, "(")

HeaderClose == CloseOf(Prefix, First(HeaderOpens))

\* The text of the header after the `)` that closes its first `(`.
AfterClose == SubSeq(Prefix, HeaderClose + 1, Len(Prefix))

IsUnmatchedOpening == HeaderOpens # {} /\ HeaderClose = 0

IsUnmatchedClosing == HeaderOpens = {} /\ Places(Prefix, ")") # {}

IsTextAfterClose ==
    /\ HeaderOpens # {} /\ HeaderClose # 0
    /\ ~IsBlank(AfterClose)
    /\ Places(AfterClose, "(") = {}

IsFurtherGroup ==
    /\ HeaderOpens # {} /\ HeaderClose # 0
    /\ Places(AfterClose, "(") # {}

UnmatchedOpening ==
    "Unmatched opening parenthesis in embedded language header"

UnmatchedClosing ==
    "Unmatched closing parenthesis in embedded language header"

InvalidHeaderFormat ==
    "Invalid embedded language header format. Expected: LANGUAGE(CONTEXT):BODY"

MultipleGroups ==
    "Multiple parenthetical groups not allowed in embedded language header"

Raises(message) == status = "error" /\ error = message

\* C20 (as claimed): a malformed header raises the error that names its
\* defect: 'unmatched opening parenthesis' for a `(` that is not closed,
\* 'unmatched closing parenthesis' for a `)` without a `(`, 'invalid header
\* format' for text after the matched `)`, and 'multiple parenthetical
\* groups' for a further `(` after the closing `)`.
C20_ErrorNamesDefect ==
    (Finished /\ IsInputC20) =>
        /\ IsUnmatchedOpening => Raises(UnmatchedOpening)
        /\ IsUnmatchedClosing => Raises(UnmatchedClosing)
        /\ IsTextAfterClose => Raises(InvalidHeaderFormat)
        /\ IsFurtherGroup => Raises(MultipleGroups)

\* The first three errors are raised as claimed, a further `(` after the
\* closing `)` raises 'invalid header format', and no input raises
\* 'multiple parenthetical groups'; it holds.
C20_ThreeErrors ==
    /\ (Finished /\ IsInputC20) =>
          /\ IsUnmatchedOpening => Raises(UnmatchedOpening)
          /\ IsUnmatchedClosing => Raises(UnmatchedClosing)
          /\ IsTextAfterClose => Raises(InvalidHeaderFormat)
          /\ IsFurtherGroup => Raises(InvalidHeaderFormat)
    /\ error # MultipleGroups

-----------------------------------------------------------------------------
(* C21: operators declared by the oracle *)

OperatorSymbols == {"=", "+", "*", "^"}

OperatorNames == {"AND", "OR", "IN", "UNION", "XOR", "POW"}

OperatorTokens ==
    {Sym(v) : v \in OperatorSymbols} \cup {SysIdent(v) : v \in OperatorNames}

\* `a op b` and `a op b op c`.
InputsC21 ==
    { <<Ident("a"), op, Ident("b"), EndTok>> : op \in OperatorTokens }
    \cup
    { <<Ident("a"), first, Ident("b"), second, Ident("c"), EndTok>> :
        first \in OperatorTokens, second \in OperatorTokens }

InitC21 == InitWithOracle(InputsC21 \cup BaseInputs, Oracles)

SpecC21 == InitC21 /\ [][Next]_vars

\* The token is an infix operator of the static table or an identifier the
\* oracle declares as an operator that is infix or has no operatorType.
IsInfixOperator(token) ==
    \/ token.type = "Symbol" /\ token.value \in OperatorSymbols
    \/ /\ token.type = "Identifier" /\ token.kind = "System"
       /\ systemLookup(token.value).type = "operator"
       /\ systemLookup(token.value).operatorType \in {"infix", NullStr}

\* The precedence of the operator: the level of the static table, or the
\* one the oracle declares, 90 when it declares none.
OperatorPrecedence(token) ==
    IF token.type = "Symbol"
    THEN CASE token.value = "=" -> 50
           [] token.value = "+" -> 80
           [] token.value = "*" -> 90
           [] OTHER -> 100
    ELSE IF systemLookup(token.value).precedence = 0 THEN 90
    ELSE systemLookup(token.value).precedence

\* The operator is right associative: `^` of the static table, or an
\* identifier the oracle declares so; left when it declares nothing.
IsRightAssociative(token) ==
    IF token.type = "Symbol" THEN token.value = "^"
    ELSE systemLookup(token.value).associativity = "right"

\* The input is `a op b` or `a op b op c` with infix operators.
IsInputC21 ==
    /\ Len(tokens) \in {4, 6}
    /\ tokens[Len(tokens)].type = "End"
    /\ \A i \in 1..(Len(tokens) - 1) :
          IF i % 2 = 1 THEN IsUserName(tokens[i])
          ELSE IsInfixOperator(tokens[i])

\* In `a op1 b op2 c` the second operator takes b: it binds tighter than
\* the first, or as tight when the first is right associative.
NestsRight ==
    \/ OperatorPrecedence(tokens[4]) > OperatorPrecedence(tokens[2])
    \/ /\ OperatorPrecedence(tokens[4]) = OperatorPrecedence(tokens[2])
       /\ IsRightAssociative(tokens[2])

IsOperationOf(node, operator) ==
    node.type = "BinaryOperation" /\ node.operator = operator.value

IsFoldedAsDeclared ==
    IF Len(tokens) = 4
    THEN /\ IsOperationOf(statements[1], tokens[2])
         /\ IsAtomOf(statements[1].left, tokens[1])
         /\ IsAtomOf(statements[1].right, tokens[3])
    ELSE IF NestsRight
    THEN /\ IsOperationOf(statements[1], tokens[2])
         /\ IsAtomOf(statements[1].left, tokens[1])
         /\ IsOperationOf(statements[1].right, tokens[4])
         /\ IsAtomOf(statements[1].right.left, tokens[3])
         /\ IsAtomOf(statements[1].right.right, tokens[5])
    ELSE /\ IsOperationOf(statements[1], tokens[4])
         /\ IsAtomOf(statements[1].right, tokens[5])
         /\ IsOperationOf(statements[1].left, tokens[2])
         /\ IsAtomOf(statements[1].left.left, tokens[1])
         /\ IsAtomOf(statements[1].left.right, tokens[3])

\* C21: a System identifier that the oracle declares as an operator, infix
\* or without operatorType, is folded in infix position into the
\* BinaryOperation named after it, with the declared precedence and
\* associativity, 90 and left when they are omitted; it groups against the
\* operators of the static table and the other oracle operators by the
\* same precedence rule (`a OR b AND c` nests AND under OR).
C21_OracleOperators ==
    (Finished /\ IsInputC21) =>
        /\ status = "done"
        /\ Len(statements) = 1
        /\ IsFoldedAsDeclared

\* `a OR b AND c` was parsed with the oracle of the tests: AND is the right
\* operand of OR.
C21_Witness ==
    /\ Len(tokens) = 6
    /\ IsInputC21
    /\ oracle = "testSystemLookup"
    /\ ValuesOf(tokens, 1, 5) = <<"a", "OR", "b", "AND", "c">>
    /\ status = "done"
    /\ statements[1].operator = "OR"
    /\ statements[1].right.operator = "AND"

\* `a XOR b POW c` was parsed with the host oracle: XOR, declared without
\* precedence, takes 90 and POW, declared at 100, is its right operand.
C21_WitnessOmitted ==
    /\ Len(tokens) = 6
    /\ IsInputC21
    /\ oracle = "hostSystemLookup"
    /\ ValuesOf(tokens, 1, 5) = <<"a", "XOR", "b", "POW", "c">>
    /\ status = "done"
    /\ statements[1].operator = "XOR"
    /\ statements[1].right.operator = "POW"

-----------------------------------------------------------------------------
(* C22: positions along the tree *)

\* The operands `a`, `(a)`, `[a]`, `-a` and `f(a)`, written with the name
\* of place i.
PositionOperandKinds == {"name", "grouping", "array", "minus", "call"}

PositionOperand(kind, i) ==
    CASE kind = "name" -> <<Ident(Letters[i])>>
      [] kind = "grouping" -> <<Sym("("), Ident(Letters[i]), Sym(")")>>
      [] kind = "array" -> <<Sym("["), Ident(Letters[i]), Sym("]")>>
      [] kind = "minus" -> <<Sym("-"), Ident(Letters[i])>>
      [] OTHER -> <<Ident("f"), Sym("("), Ident(Letters[i]), Sym(")")>>

MaxOperands == 3

\* One to MaxOperands operands joined by `+`.
PositionBodies ==
    { Join([i \in 1..Len(p) |-> PositionOperand(p[i], i)], Sym("+")) :
        p \in UNION {[1..n -> PositionOperandKinds] : n \in 1..MaxOperands} }

\* What the tokenizer or the caller puts after the expression: End, `;` and
\* End, nothing at all, or `;` alone.
PositionEndings ==
    {<<EndTok>>, <<Sym(";"), EndTok>>, <<>>, <<Sym(";")>>}

InputsC22 ==
    {body \o ending : body \in PositionBodies, ending \in PositionEndings}

InitC22 == InitWith(InputsC22 \cup BaseInputs)

SpecC22 == InitC22 /\ [][Next]_vars

\* The children of a node of the trees of these inputs, from left to right.
ChildrenOf(node) ==
    CASE node.type \in {"Statement", "Grouping"} -> <<node.expression>>
      [] node.type = "BinaryOperation" -> <<node.left, node.right>>
      [] node.type = "UnaryOperation" -> <<node.operand>>
      [] node.type = "Array" -> node.elements
      [] node.type = "FunctionCall" ->
           <<node.function>> \o node.arguments.positional
      [] OTHER -> <<>>

\* The start positions of the nodes of the tree in pre-order.
RECURSIVE PreOrder(_)
PreOrder(node) ==
    <<node.pos>>
      \o Flatten([i \in 1..Len(ChildrenOf(node)) |->
                    PreOrder(ChildrenOf(node)[i])])

IsNonDecreasing(seq) == \A i \in 1..(Len(seq) - 1) : seq[i] <= seq[i + 1]

\* The input is one of the expressions above: names, `+`, `-`, brackets and
\* `f`, with or without `;` and End.
IsInputC22 ==
    /\ Len(tokens) >= 1
    /\ \A i \in 1..Len(tokens) :
          \/ IsUserName(tokens[i])
          \/ tokens[i].type = "End" /\ i = Len(tokens)
          \/ /\ tokens[i].type = "Symbol"
             /\ tokens[i].value \in {"+", "-", "(", ")", "[", "]"}
          \/ /\ tokens[i].type = "Symbol" /\ tokens[i].value = ";"
             /\ i >= Len(tokens) - 1

HasEnd == tokens[Len(tokens)].type = "End"

\* C22 (as claimed): in every successfully parsed tree the start positions
\* are non-decreasing along the left-to-right pre-order traversal, also for
\* token sequences that end without an End token or a `;`.
C22_PositionsNonDecreasing ==
    (status = "done" /\ IsInputC22) =>
        \A i \in 1..Len(statements) : IsNonDecreasing(PreOrder(statements[i]))

\* The same statement for the token sequences that end with the End token
\* of the tokenizer; it holds.
C22_WithEndToken ==
    (status = "done" /\ IsInputC22 /\ HasEnd) =>
        \A i \in 1..Len(statements) : IsNonDecreasing(PreOrder(statements[i]))

-----------------------------------------------------------------------------
(* C23: comments *)

MaxCommentTokens == 4

CommentPieces ==
    {Num("1"), Sym("+"), Sym("["), Sym("]"), Sym(";"),
     CommentTok("c"), CommentTok("d")}

\* Every sequence of 1..MaxCommentTokens of these tokens, followed by End.
InputsC23 ==
    { toks \o <<EndTok>> :
        toks \in UNION {[1..n -> CommentPieces] : n \in 1..MaxCommentTokens} }

InitC23 == InitWith(InputsC23 \cup BaseInputs)

SpecC23 == InitC23 /\ [][Next]_vars

IsCommentNode(node) == node.type = "Comment"

\* The comment tokens of the input and the top-level Comment nodes of the
\* output, each in order.
CommentsWritten == SelectSeq(tokens, IsComment)

CommentsReturned == SelectSeq(statements, IsCommentNode)

\* Every comment token stands where an expression may end: first, or after
\* a number, a `]`, a `;` or another comment, and outside every bracket;
\* and no number stands right after a number or a `]`.
CommentsAfterOperands ==
    \A i \in 2..Len(tokens) :
        /\ IsComment(tokens[i]) => i \in DepthZero(tokens, 1, Len(tokens), 0)
        /\ IsComment(tokens[i]) =>
              \/ tokens[i - 1].type = "Number"
              \/ IsComment(tokens[i - 1])
              \/ /\ tokens[i - 1].type = "Symbol"
                 /\ tokens[i - 1].value \in {"]", ";"}
        /\ tokens[i].type = "Number" =>
              /\ tokens[i - 1].type # "Number"
              /\ tokens[i - 1].value # "]"

\* C23 (as claimed): every comment token of the input is a top-level
\* Comment node of the output, in source order, and nothing else: no
\* comment is an operand or an element, so the top-level Comment nodes are
\* exactly the comment tokens.
C23_CommentsAreTopLevel ==
    status = "done" =>
        /\ Len(CommentsReturned) = Len(CommentsWritten)
        /\ \A i \in 1..Len(CommentsReturned) :
              CommentsReturned[i].value = CommentsWritten[i].value

\* The same statement for the inputs whose comments stand where an
\* expression may end; it holds.
C23_CommentsAfterOperands ==
    (status = "done" /\ CommentsAfterOperands) =>
        /\ Len(CommentsReturned) = Len(CommentsWritten)
        /\ \A i \in 1..Len(CommentsReturned) :
              CommentsReturned[i].value = CommentsWritten[i].value

-----------------------------------------------------------------------------
(* C24: balanced brackets *)

MaxBracketTokens == 4

CloserOf(open) ==
    CASE open = "(" -> ")"
      [] open = "[" -> "]"
      [] open = "{" -> "}"
      [] OTHER -> "}}"

\* The brackets, a number, and the string literals `")"` and `"]"`.
BracketPieces ==
    {Sym(v) : v \in Openers \cup Closers}
    \cup {Num("1"), Str(")"), Str("]")}

\* Every sequence of 1..MaxBracketTokens of these tokens, followed by End.
InputsC24 ==
    { toks \o <<EndTok>> :
        toks \in UNION {[1..n -> BracketPieces] : n \in 1..MaxBracketTokens} }

InitC24 == InitWith(InputsC24 \cup BaseInputs)

SpecC24 == InitC24 /\ [][Next]_vars

\* The bracket symbols of toks from index i on are balanced and properly
\* nested, open being the closers still awaited, innermost first.
RECURSIVE IsBalancedFrom(_, _, _)
IsBalancedFrom(toks, i, open) ==
    IF i > Len(toks) THEN open = <<>>
    ELSE IF IsOpener(toks[i])
    THEN IsBalancedFrom(toks, i + 1, <<CloserOf(toks[i].value)>> \o open)
    ELSE IF IsCloser(toks[i])
    THEN /\ open # <<>>
         /\ Head(open) = toks[i].value
         /\ IsBalancedFrom(toks, i + 1, Tail(open))
    ELSE IsBalancedFrom(toks, i + 1, open)

IsBalanced == IsBalancedFrom(tokens, 1, <<>>)

HasStringToken ==
    \E i \in 1..Len(tokens) :
        tokens[i].type = "String" /\ tokens[i].kind = "quote"

\* C24 (as claimed): parse succeeds only on token sequences whose brackets
\* `(` `)`, `[` `]`, `{` `}`, `{{` `}}` are balanced and properly nested;
\* an unmatched opening or closing bracket, at top level or inside another
\* container, is a parse error.
C24_SuccessOnlyWhenBalanced == status = "done" => IsBalanced

\* An opening `(`, `{` or `{{` stands right after a number or a closing
\* bracket, in infix position.
HasInfixOpener ==
    \E i \in 2..Len(tokens) :
        /\ tokens[i].type = "Symbol" /\ tokens[i].value \in {"(", "{", "{{"}
        /\ tokens[i - 1].type = "Number" \/ IsCloser(tokens[i - 1])

\* The same statement for the inputs without string literals and without
\* an opening bracket in infix position; it holds.
C24_PrefixOpeners ==
    (status = "done" /\ ~HasStringToken /\ ~HasInfixOpener) => IsBalanced

-----------------------------------------------------------------------------
(* C25: what may stand as a binary operator *)

MaxJuxtaposed == 3

PlaceHolderTok == [Token("PlaceHolder", NullStr, NullStr) EXCEPT !.place = 1]

\* Operands, operators, an unknown symbol and parentheses.
JuxtaposedPieces ==
    {Num("1"), Ident("a"), Str("s"), SysIdent("PI"), PlaceHolderTok,
     SysIdent("AND"), Sym("+"), Sym("*"), Sym("@"), Sym("("), Sym(")")}

\* Every sequence of 1..MaxJuxtaposed of these tokens, followed by End.
InputsC25 ==
    { toks \o <<EndTok>> :
        toks \in UNION {[1..n -> JuxtaposedPieces] : n \in 1..MaxJuxtaposed} }

InitC25 == InitWith(InputsC25 \cup BaseInputs)

SpecC25 == InitC25 /\ [][Next]_vars

\* The operators of the BinaryOperation nodes of the tree.
RECURSIVE BinaryOperators(_)
BinaryOperators(node) ==
    (IF node.type = "BinaryOperation" THEN {node.operator} ELSE {})
    \cup UNION {BinaryOperators(ChildrenOf(node)[i]) :
                  i \in 1..Len(ChildrenOf(node))}

\* The infix operator symbols of the static table and the names the oracle
\* declares as operators.
IsDeclaredOperator(operator) ==
    \/ /\ operator \in DOMAIN SYMBOL_TABLE
       /\ SYMBOL_TABLE[operator].type = "infix"
    \/ systemLookup(operator).type = "operator"

\* The token is an operand: a number, a string, a placeholder or an
\* identifier that is not an operator.
IsOperandToken(token) ==
    \/ token.type \in {"Number", "String", "PlaceHolder"}
    \/ /\ token.type = "Identifier"
       /\ systemLookup(token.value).type # "operator" \/ token.kind = "User"

HasAdjacentOperands ==
    \E i \in 2..(Len(tokens) - 1) :
        IsOperandToken(tokens[i - 1]) /\ IsOperandToken(tokens[i])

IsInputC25 ==
    /\ tokens[Len(tokens)].type = "End"
    /\ \A i \in 1..(Len(tokens) - 1) :
          \/ IsOperandToken(tokens[i])
          \/ tokens[i].type = "Identifier" /\ tokens[i].kind = "System"
          \/ /\ tokens[i].type = "Symbol"
             /\ tokens[i].value \in {"+", "*", "@", "(", ")"}

\* C25 (as claimed): in a successfully parsed tree the operator of every
\* BinaryOperation is an infix operator symbol of the static table or a
\* name the oracle declares as an operator; an operand, a bracket or an
\* unknown symbol in infix position is never a binary operator, and two
\* adjacent operands fail to parse.
C25_OperatorsAreDeclared ==
    (Finished /\ IsInputC25) =>
        /\ status = "done" =>
              \A i \in 1..Len(statements) :
                  \A operator \in BinaryOperators(statements[i]) :
                      IsDeclaredOperator(operator)
        /\ HasAdjacentOperands => status = "error"

\* For operands alternating with `+`, `*` and AND, the operators of the
\* tree are declared operators; it holds.
C25_OperatorsBetweenOperands ==
    (/\ status = "done"
     /\ IsInputC25
     /\ \A i \in 1..(Len(tokens) - 1) :
           IF i % 2 = 1 THEN IsOperandToken(tokens[i])
           ELSE tokens[i].value \in {"+", "*", "AND"}) =>
        /\ Len(statements) = 1
        /\ \A operator \in BinaryOperators(statements[1]) :
              IsDeclaredOperator(operator)

-----------------------------------------------------------------------------
(* C26: the parameters of a lambda and of a definition *)

LambdaKeywordKinds == {"pair", "both"}

\* A parameter text: a positional list, with or without a `;` section.
ParameterTexts ==
    { DefList(pos, 1) : pos \in DefLayouts(DefPositionalKinds) }
    \cup
    { DefList(pos, 1) \o <<Sym(";")>> \o DefList(kw, Len(pos) + 1) :
        pos \in DefLayouts(DefPositionalKinds),
        kw \in DefLayouts(LambdaKeywordKinds) }

\* `(P) -> 7; f(P) :-> 7;`
InputsC26 ==
    { <<Sym("(")>> \o text \o <<Sym(")"), Sym("->"), Num("7"), Sym(";")>>
        \o <<Ident("f"), Sym("(")>> \o text
        \o <<Sym(")"), Sym(":->"), Num("7"), Sym(";"), EndTok>> :
        text \in ParameterTexts }

InitC26 == InitWith(InputsC26 \cup BaseInputs)

SpecC26 == InitC26 /\ [][Next]_vars

\* The node without the positions of its tokens.
RECURSIVE WithoutPos(_)
WithoutPos(node) ==
    IF node.type = "null" THEN node
    ELSE IF node.type = "BinaryOperation"
    THEN [node EXCEPT !.pos = 0, !.left = WithoutPos(@),
                      !.right = WithoutPos(@)]
    ELSE [node EXCEPT !.pos = 0]

ParamsWithoutPos(params) ==
    [i \in 1..Len(params) |->
       [name |-> params[i].name,
        defaultValue |-> WithoutPos(params[i].defaultValue)]]

\* A parameter specification without the positions of its tokens.
SpecificationWithoutPos(parameters) ==
    [positional |-> ParamsWithoutPos(parameters.positional),
     keyword |-> ParamsWithoutPos(parameters.keyword),
     conditionals |-> [i \in 1..Len(parameters.conditionals) |->
                         WithoutPos(parameters.conditionals[i])],
     metadata |-> parameters.metadata]

\* The length of the parameter text of an input `(P) -> 7; f(P) :-> 7;`.
TextLength == (Len(tokens) - 12) \div 2

\* The input is `(P) -> 7; f(P) :-> 7;` followed by End, with the same
\* parameter text P in both.
IsInputC26 ==
    /\ Len(tokens) >= 12 /\ Len(tokens) % 2 = 0
    /\ tokens[1].type = "Symbol" /\ tokens[1].value = "("
    /\ ClosingIndex(tokens, 2, 1) = TextLength + 2
    /\ ValuesOf(tokens, TextLength + 2, TextLength + 7)
         = <<")", "->", "7", ";", "f", "(">>
    /\ ValuesOf(tokens, 2, TextLength + 1)
         = ValuesOf(tokens, TextLength + 8, 2 * TextLength + 7)
    /\ ValuesOf(tokens, 2 * TextLength + 8, Len(tokens) - 1)
         = <<")", ":->", "7", ";">>
    /\ tokens[Len(tokens)].type = "End"

\* The lambda of the input was parsed.
IsLambdaParsed ==
    /\ Len(statements) >= 1
    /\ statements[1].type = "Statement"
    /\ statements[1].expression.type = "FunctionLambda"

\* C26 (as claimed): whenever the lambda `(P) -> b` parses, its parameter
\* specification (positional entries with defaults, keyword entries with
\* defaults, conditionals) equals the one of the definition `f(P) :-> b`.
C26_LambdaMatchesDefinition ==
    (Finished /\ IsInputC26 /\ IsLambdaParsed) =>
        /\ status = "done"
        /\ Len(statements) = 2
        /\ statements[2].expression.type = "FunctionDefinition"
        /\ SpecificationWithoutPos(statements[1].expression.parameters)
             = SpecificationWithoutPos(statements[2].expression.parameters)

\* The parameter text is a list of plain names, a single `x ? guard`, or
\* has a `;` section and no parameter with both a default and a guard.
IsPlainText ==
    LET text == SubSeq(tokens, 2, TextLength + 1)
        separators == {text[i].value : i \in DepthZero(text, 1, Len(text), 0)}
        guards == Cardinality({i \in 1..Len(text) : text[i].value = "?"})
        defaults == Cardinality({i \in 1..Len(text) : text[i].value = ":="})
    IN \/ guards = 0 /\ defaults = 0 /\ ";" \notin separators
       \/ guards = 1 /\ defaults = 0 /\ separators \cap {",", ";"} = {}
       \/ /\ ";" \in separators
          /\ \A i \in 1..(Len(text) - 2) :
                text[i].value = ":=" => text[i + 2].value # "?"

\* The same statement for these parameter texts; it holds.
C26_PlainTexts ==
    (Finished /\ IsInputC26 /\ IsLambdaParsed /\ IsPlainText) =>
        /\ status = "done"
        /\ Len(statements) = 2
        /\ statements[2].expression.type = "FunctionDefinition"
        /\ SpecificationWithoutPos(statements[1].expression.parameters)
             = SpecificationWithoutPos(statements[2].expression.parameters)

-----------------------------------------------------------------------------
(* C27: well-formed parameter specifications *)

MaxSpecArgs == 2

SpecArgKinds ==
    {"name", "default", "guard", "number", "number default", "string"}

\* `a`, `a := 2`, `a ? a > 1`, `1`, `1 := 2` and `"s"`.
SpecArg(kind, i) ==
    CASE kind = "name" -> <<Ident(Letters[i])>>
      [] kind = "default" -> <<Ident(Letters[i]), Sym(":="), Num("2")>>
      [] kind = "guard" ->
           <<Ident(Letters[i]), Sym("?"), Ident(Letters[i]), Sym(">"),
             Num("1")>>
      [] kind = "number" -> <<Num("1")>>
      [] kind = "number default" -> <<Num("1"), Sym(":="), Num("2")>>
      [] OTHER -> <<Str("s")>>

SpecArgLists ==
    { Join([i \in 1..Len(p) |-> SpecArg(p[i], i)], Sym(",")) :
        p \in UNION {[1..n -> SpecArgKinds] : n \in 0..MaxSpecArgs} }

\* The right sides: a body after `:->` and one pattern after `:=>`.
DefinitionTails ==
    { <<Sym(":->"), Num("7")>>,
      <<Sym(":=>"), Sym("("), Ident("a"), Sym(")"), Sym("->"), Num("1")>> }

\* `f :-> 7`, `f :=> (a) -> 1`, `f(args) :-> 7`, `f(args) :=> (a) -> 1` and
\* `(args) -> 7`.
InputsC27 ==
    { <<Ident("f")>> \o tail \o <<EndTok>> : tail \in DefinitionTails }
    \cup
    { <<Ident("f"), Sym("(")>> \o args \o <<Sym(")")>> \o tail \o <<EndTok>> :
        args \in SpecArgLists, tail \in DefinitionTails }
    \cup
    { <<Sym("(")>> \o args \o <<Sym(")"), Sym("->"), Num("7"), EndTok>> :
        args \in SpecArgLists }

InitC27 == InitWith(InputsC27 \cup BaseInputs)

SpecC27 == InitC27 /\ [][Next]_vars

\* The parameter specifications of a top-level node: its own and those of
\* its patterns.
SpecificationsOf(node) ==
    (IF node.type \in {"FunctionDefinition", "PatternMatchingFunction",
                       "FunctionLambda"}
     THEN {node.parameters} ELSE {})
    \cup
    (IF node.type = "PatternMatchingFunction"
     THEN {node.patterns[i].parameters : i \in 1..Len(node.patterns)}
     ELSE {})

HasFourFields(parameters) ==
    DOMAIN parameters = {"positional", "keyword", "conditionals", "metadata"}

HasNamedEntries(parameters) ==
    /\ \A i \in 1..Len(parameters.positional) :
          parameters.positional[i].name # NullStr
    /\ \A i \in 1..Len(parameters.keyword) :
          parameters.keyword[i].name # NullStr

\* The input is a definition, a pattern-matching function or a lambda.
IsInputC27 ==
    /\ Len(tokens) >= 4
    /\ tokens[Len(tokens)].type = "End"
    /\ \E i \in 2..(Len(tokens) - 2) :
          /\ tokens[i].type = "Symbol"
          /\ tokens[i].value \in {":->", ":=>", "->"}

\* The left side of the definition is a call, or the input is a lambda.
HasArgumentList ==
    \/ tokens[1].value = "("
    \/ tokens[2].type = "Symbol" /\ tokens[2].value = "("

\* No literal stands at the start of a parameter.
HasNamesOnly ==
    \A i \in 2..Len(tokens) :
        tokens[i].type \in {"Number", "String"} =>
            tokens[i - 1].value \notin {"(", ","}

\* C27 (as claimed): every parameter specification of a successfully
\* parsed tree has the four fields positional, keyword, conditionals and
\* metadata, also when the left side of `:->` or `:=>` is not a call, and
\* every positional and keyword entry has a non-null name, also when a
\* literal stands in parameter position.
C27_WellFormedSpecifications ==
    (status = "done" /\ IsInputC27) =>
        \A i \in 1..Len(statements) :
            \A parameters \in SpecificationsOf(statements[i]) :
                HasFourFields(parameters) /\ HasNamedEntries(parameters)

\* The same statement for the definitions whose left side is a call and
\* the lambdas, with names in parameter position; it holds.
C27_CallsWithNames ==
    (status = "done" /\ IsInputC27 /\ HasArgumentList /\ HasNamesOnly) =>
        \A i \in 1..Len(statements) :
            \A parameters \in SpecificationsOf(statements[i]) :
                HasFourFields(parameters) /\ HasNamedEntries(parameters)

-----------------------------------------------------------------------------
(* C28: prefix operators declared by the oracle *)

\* The operands `x`, `1`, `(x)` and `x + 1`.
PrefixOperands ==
    { <<Ident("x")>>, <<Num("1")>>, <<Sym("("), Ident("x"), Sym(")")>>,
      <<Ident("x"), Sym("+"), Num("1")>> }

\* What stands before the prefix operator: nothing, `y AND` and `1 +`.
PrefixContexts ==
    { <<>>, <<Ident("y"), SysIdent("AND")>>, <<Num("1"), Sym("+")>> }

PrefixOperators == {SysIdent("NOT"), Sym("-")}

PrefixEndings == {<<EndTok>>, <<Sym(";"), EndTok>>}

\* `NOT operand` and `-operand`, alone or as a right operand, with or
\* without `;`; and the same in parentheses.
InputsC28 ==
    { context \o <<operator>> \o operand \o ending :
        context \in PrefixContexts, operator \in PrefixOperators,
        operand \in PrefixOperands, ending \in PrefixEndings }
    \cup
    { <<Sym("(")>> \o <<operator>> \o operand \o <<Sym(")")>> \o ending :
        operator \in PrefixOperators, operand \in PrefixOperands,
        ending \in PrefixEndings }

InitC28 == InitWith(InputsC28 \cup BaseInputs)

SpecC28 == InitC28 /\ [][Next]_vars

\* The token is a prefix operator the oracle declares.
IsDeclaredPrefix(token) ==
    /\ token.type = "Identifier" /\ token.kind = "System"
    /\ systemLookup(token.value).type = "operator"
    /\ systemLookup(token.value).operatorType = "prefix"

\* The input is `NOT operand` followed by End or by `;` and End.
IsInputC28 ==
    /\ Len(tokens) >= 3
    /\ IsDeclaredPrefix(tokens[1])
    /\ \E operand \in PrefixOperands, ending \in PrefixEndings :
          tokens = WithPos(<<SysIdent(tokens[1].value)>> \o operand \o ending)

\* The node at the head of a statement: the leftmost operand of the
\* BinaryOperations the Pratt loop built around it.
RECURSIVE HeadNode(_)
HeadNode(node) ==
    IF node.type = "BinaryOperation" THEN HeadNode(node.left) ELSE node

\* C28 (as claimed): a prefix operator declared by the oracle, in prefix
\* position before an operand, parses into a node that applies the
\* operator to the operand, as the built-in unary `-` does; `NOT x;` is
\* not a parse error.
C28_PrefixOperatorApplies ==
    (Finished /\ IsInputC28) =>
        /\ status = "done"
        /\ Len(statements) = 1
        /\ HeadNode(TopNode).type = "UnaryOperation"
        /\ HeadNode(TopNode).operator = tokens[1].value

\* The built-in unary `-` before the same operands parses into the
\* UnaryOperation of the operand, at the head of the statement; it holds.
C28_BuiltInMinus ==
    (/\ Finished
     /\ Len(tokens) >= 3
     /\ tokens[1].type = "Symbol" /\ tokens[1].value = "-"
     /\ \E operand \in PrefixOperands, ending \in PrefixEndings :
           tokens = WithPos(<<Sym("-")>> \o operand \o ending)) =>
        /\ status = "done"
        /\ Len(statements) = 1
        /\ HeadNode(TopNode).type = "UnaryOperation"
        /\ HeadNode(TopNode).operator = "-"

-----------------------------------------------------------------------------
(* C29: parse terminates and returns only at the end of the tokens *)

\* Inputs that run each parsing loop more than once: the top level, the
\* Pratt loop, a tuple, an array, a brace container, a code block, the
\* arguments of a call, the parameters of a definition, a pattern list,
\* the variable list of a derivative and of an integral.
LoopInputs ==
    { <<Num("1"), Sym(";"), Ident("x"), Sym(";"), CommentTok("c"), Num("2")>>,
      <<Num("1"), Sym("+"), Ident("x"), Sym("*"), Num("2"), Sym("^"),
        Num("3"), Sym("-"), Num("4")>>,
      <<Ident("a"), SysIdent("AND"), SysIdent("SIN"), Sym("("), Ident("x"),
        Sym(")")>>,
      <<Ident("a"), Sym("+"), Ident("b"), Sym("constructor"), Ident("c"),
        Sym("*"), SysIdent("toString")>>,
      <<Sym("("), Num("1"), Sym(","), Ident("x"), Sym(","), Num("2"),
        Sym(")")>>,
      <<Sym("["), Num("1"), Sym(","), Num("2"), Sym(";"), Num("3"), Sym(","),
        Num("4"), Sym("]")>>,
      <<Sym("["), Num("1"), Semis(2), Num("2"), Sym("]")>>,
      <<Sym("{"), Ident("a"), Sym(":="), Num("1"), Sym(";"), Ident("b"),
        Sym(":="), Num("2"), Sym("}")>>,
      <<Sym("{"), Num("1"), Sym(","), Num("2"), Sym(","), Num("3"),
        Sym("}")>>,
      <<Sym("{{"), Num("1"), Sym(";"), Ident("x"), Sym(";"), Num("2"),
        Sym("}}")>>,
      <<Ident("f"), Sym("("), Num("1"), Sym(","), Num("2"), Sym(";"),
        Ident("a"), Sym(":="), Num("3"), Sym(")")>>,
      <<Ident("f"), Sym("("), Ident("a"), Sym(","), Ident("b"), Sym(":="),
        Num("1"), Sym(";"), Ident("c"), Sym(":="), Num("2"), Sym(")"),
        Sym(":->"), Ident("a")>>,
      <<Sym("("), Ident("a"), Sym(","), Ident("b"), Sym(")"), Sym("->"),
        Ident("a"), Sym("+"), Ident("b")>>,
      <<Ident("f"), Sym(":=>"), Sym("["), Sym("("), Ident("x"), Sym("?"),
        Ident("x"), Sym(")"), Sym("->"), Num("1"), Sym(","), Sym("("),
        Ident("x"), Sym(")"), Sym("->"), Num("2"), Sym("]")>>,
      <<Ident("f"), Sym("'"), Sym("["), Ident("x"), Sym(","), Ident("y"),
        Sym("]"), Sym("("), Num("1"), Sym(","), Num("2"), Sym(")")>>,
      <<Sym("'"), Ident("f"), Sym("["), Ident("x"), Sym("]"), Sym("("),
        Num("1"), Sym(")")>> }

\* The sequence without its i-th token.
WithoutToken(toks, i) == SubSeq(toks, 1, i - 1) \o SubSeq(toks, i + 1, Len(toks))

\* Each input, each of its prefixes and each input with one token left
\* out: the loops are entered, left early and left by an error.
LoopVariants ==
    UNION { { SubSeq(toks, 1, k) : k \in 0..Len(toks) }
            \cup { WithoutToken(toks, i) : i \in 1..Len(toks) } :
            toks \in LoopInputs }

\* Token sequences of the tokenizer (End last) and sequences that simply
\* end, for which advance() synthesises the End sentinel.
InputsC29 ==
    { variant \o ending : variant \in LoopVariants,
                          ending \in {<<>>, <<EndTok>>} }

InitC29 == InitWithOracle(InputsC29, Oracles)

SpecC29 == InitC29 /\ [][Next]_vars

\* The loop of parse() calls parseStatement, which returns or throws:
\* the condition is ENABLED <<ParseStatement \/ ParseError>>_vars.
CanParseStatement ==
    status = "running" /\ current.type # "End" /\ ~IsComment(current)

\* Weak fairness of the statement step, WF_vars(ParseStatement \/
\* ParseError), with its enabling condition written out.
ParseStatementFairness ==
    <>[]CanParseStatement => []<><<ParseStatement \/ ParseError>>_vars

\* parse() is a loop of direct calls without suspension points: a step
\* that can be taken is taken.
FairSpecC29 ==
    /\ SpecC29
    /\ WF_vars(ParseComment)
    /\ WF_vars(ParseReturn)
    /\ ParseStatementFairness

\* The number of tokens not yet consumed, the current one included.
Remaining(s) ==
    IF s.current.type = "End" THEN 0 ELSE Len(tokens) - s.position + 1

\* The call returned r from the cursor s: it raised an error or consumed
\* at least one token.
ConsumesOrRaises(r, s) == r.err # "" \/ Remaining(r.s) < Remaining(s)

\* The bodies of the loops are parseStatement (top level, code block) and
\* parseExpression (Pratt loop, tuple, array, brace, argument and
\* parameter lists); wherever in the tokens they start, they consume a
\* token or raise.
LoopBodiesConsume ==
    \A p \in 1..Len(tokens) :
        tokens[p].type # "End" =>
            /\ \A r \in {parseStatement(Cursor(p, tokens[p]))} :
                   ConsumesOrRaises(r, Cursor(p, tokens[p]))
            /\ \A minPrec \in {0, PRECEDENCE.UNARY} :
                   \A r \in {parseExpression(minPrec, Cursor(p, tokens[p]))} :
                       ConsumesOrRaises(r, Cursor(p, tokens[p]))

\* A step of the top-level loop consumes a token or ends the run.
TopLevelConsumes ==
    \/ status' # "running"
    \/ Remaining(Cursor(position', current')) <
           Remaining(Cursor(position, current))

\* A normal return happens at the end of the tokens only.
ReturnsAtEnd ==
    status = "done" => position = Len(tokens) /\ current.type = "End"

\* C29: for every token sequence and every oracle parse terminates, with
\* an error or with a result; every iteration of the parsing loops
\* consumes a token or raises; a normal return happens only when the
\* cursor equals the number of tokens.
C29_ParseTerminates ==
    /\ []LoopBodiesConsume
    /\ [][TopLevelConsumes]_vars
    /\ []ReturnsAtEnd
    /\ <>Finished

\* The pattern-matching definition with two patterns is parsed to the
\* last token and returned.
C29_Witness ==
    /\ status = "done"
    /\ Len(tokens) = 18
    /\ tokens[2].value = ":=>"
    /\ position = 18
    /\ current.type = "End"
    /\ Len(statements) = 1

-----------------------------------------------------------------------------
(* C30: the cursor moves forward only *)

\* Parenthesised contents the look-ahead scan reads to different depths: an
\* expression, a tuple, a parameter list, nested parentheses before and
\* after a comma or a semicolon.
GroupingInputs ==
    { <<Sym("("), Ident("a"), Sym("+"), Ident("b"), Sym(")")>>,
      <<Sym("("), Ident("a"), Sym(","), Num("2"), Sym(")"), Sym("+"),
        Num("1")>>,
      <<Sym("("), Ident("a"), Sym(";"), Ident("n"), Sym(":="), Num("2"),
        Sym(")")>>,
      <<Sym("("), Ident("a"), Sym(","), Ident("b"), Sym(";"), Ident("n"),
        Sym(":="), Num("2"), Sym(")")>>,
      <<Sym("("), Num("1"), Sym("+"), Sym("("), Ident("b"), Sym(","),
        Ident("c"), Sym(")"), Sym(")")>>,
      <<Sym("("), Ident("a"), Sym(","), Sym("("), Ident("b"), Sym(";"),
        Ident("n"), Sym(":="), Num("2"), Sym(")"), Sym(","), Num("3"),
        Sym(")")>>,
      <<Num("1"), Sym("*"), Sym("("), Sym("("), Ident("a"), Sym(")"),
        Sym(","), Ident("b"), Sym(")")>> }

InputsC30 ==
    InputsC29
    \cup
    UNION { { SubSeq(toks, 1, k) \o ending :
                k \in 1..Len(toks), ending \in {<<>>, <<EndTok>>} } :
            toks \in GroupingInputs }

InitC30 == InitWithOracle(InputsC30, Oracles)

SpecC30 == InitC30 /\ [][Next]_vars

\* One advance() from any token: position grows by one up to the number of
\* tokens and current is the token there; at the last token position
\* stays, current becomes the End sentinel and further advances change
\* nothing.
AdvanceMovesForward ==
    \A p \in 1..Len(tokens) :
        \A t \in {advance(Cursor(p, tokens[p]))} :
            /\ t.position \in {p, p + 1}
            /\ t.position <= Len(tokens)
            /\ t.position = p + 1 => t.current = tokens[p + 1]
            /\ t.position = p =>
                 /\ p = Len(tokens)
                 /\ t.current = EndSentinel
                 /\ advance(t) = t
                 /\ peek(t).type = "End"

\* The cursor of the parser is at a token of the list or, behind the last
\* one, at the End sentinel.
CursorInRange ==
    /\ position \in 0..Len(tokens)
    /\ \/ position >= 1 /\ current = tokens[position]
       \/ position = Len(tokens) /\ current = EndSentinel

\* A step of the parser does not move the cursor back, does not touch the
\* tokens and leaves the End sentinel in place.
CursorStep ==
    /\ position' >= position
    /\ tokens' = tokens
    /\ (position = Len(tokens) /\ current = EndSentinel) => current' = current

\* The leftmost name or number of a node.
RECURSIVE LeftmostText(_)
LeftmostText(node) ==
    IF node.type = "Grouping" THEN LeftmostText(node.expression)
    ELSE IF node.type = "ParameterList"
    THEN IF node.parameters.positional # <<>>
         THEN node.parameters.positional[1].name
         ELSE NullStr
    ELSE IF node.type = "Tuple" /\ node.elements # <<>>
    THEN LeftmostText(node.elements[1])
    ELSE IF node.type = "BinaryOperation" THEN LeftmostText(node.left)
    ELSE IF node.type \in {"UserIdentifier", "SystemIdentifier"}
    THEN node.name
    ELSE IF node.type = "Number" THEN node.value
    ELSE NullStr

\* After the look-ahead scan of parseGrouping the content is parsed from
\* the token that follows the opening parenthesis, however far the scan
\* went, and the parse ends behind the closing parenthesis of the pair.
LookAheadLeavesCursor ==
    \A p \in 1..(Len(tokens) - 1) :
        (/\ tokens[p].type = "Symbol" /\ tokens[p].value = "("
         /\ IsAtomToken(tokens[p + 1])) =>
            \A r \in {parseGrouping(Cursor(p, tokens[p]))} :
                r.err = "" =>
                    /\ LeftmostText(r.val) = tokens[p + 1].value
                    /\ r.s.position > p + 1
                    /\ tokens[IF r.s.current = EndSentinel
                                 /\ tokens[Len(tokens)].value = ")"
                              THEN Len(tokens)
                              ELSE r.s.position - 1].value = ")"

\* C30: position never decreases, grows by one per advance and never
\* exceeds the number of tokens; behind the last token current is the End
\* sentinel and stays so; the look-ahead scan of parseGrouping leaves the
\* cursor and the tokens as they were.
C30_CursorMovesForward ==
    /\ []AdvanceMovesForward
    /\ []CursorInRange
    /\ [][CursorStep]_vars
    /\ []LookAheadLeavesCursor

\* A tuple in a token list without End token is parsed to the End
\* sentinel.
C30_Witness ==
    /\ status = "done"
    /\ Len(tokens) = 7
    /\ tokens[1].value = "(" /\ tokens[3].value = ","
    /\ tokens[7].type # "End"
    /\ position = 7
    /\ current = EndSentinel

====
